---- MODULE Spec2Model ----
(***************************************************************************)
(* IaC drift detection / remediation / rollback.                           *)
(*                                                                         *)
(* Three command-line programs share one host:                             *)
(*   drift-detector.py  (DriftDetector)     one detection cycle per run    *)
(*   auto-remediate.py  (RemediationEngine) one remediation run            *)
(*   rollback.py        (RollbackManager)   one rollback run               *)
(* They are separate OS processes, each with its own working directory,    *)
(* and they share the file system (state-file, backup store, report log)   *)
(* and the container engine.  Every file the programs touch is named by a  *)
(* path relative to the working directory, so the working directory is     *)
(* part of the state.  External tools (terraform, docker, cp, python3) are *)
(* black boxes: their outcome is an input chosen by the environment.       *)
(***************************************************************************)
EXTENDS Integers, Sequences, FiniteSets, TLC

\* ---------------------------------------------------------------- bounds
MaxClock == 1       \* wall clock, in seconds: timestamps are 0..MaxClock
MaxVer   == 2       \* distinct state-file contents 1..MaxVer (0 = no file)
MaxDrift == 1       \* spontaneous changes of the infrastructure
MaxCycles == 1      \* detection cycles started by the operator or scheduler
MaxEvents == 2      \* environment events in all (ticks, changes, cycles)

Timestamps == 0..MaxClock

\* ------------------------------------------------------------ option type
None    == <<>>
Some(x) == <<x>>
IsSome(o) == o # <<>>
Get(o)  == o[1]

\* ------------------------------------------------------------------ paths
\* A path is the sequence of directory names from the file-system root.
Parent(p) == IF p = <<>> THEN <<>> ELSE SubSeq(p, 1, Len(p) - 1)

RECURSIVE Resolve(_, _)
Resolve(cwd, rel) ==
    IF rel = <<>> THEN cwd
    ELSE IF Head(rel) = ".." THEN Resolve(Parent(cwd), Tail(rel))
    ELSE Resolve(Append(cwd, Head(rel)), Tail(rel))

\* The two deployments considered: the checkout sits in a directory "repo"
\* below the file-system root, or it is the file-system root itself.
Layouts == { <<"repo">>, <<>> }

\* directories of a checkout rooted at r
Dirs(r) == { SubSeq(r, 1, k) : k \in 0..Len(r) } \cup
           { Append(r, d) : d \in {"scripts", "terraform", "logs", "backups", "config"} }

\* the programs are started from <checkout>/scripts: every path they use is
\* of the form ../<dir>/...
StartCwd(r) == Append(r, "scripts")

terraform_dir == <<"..", "terraform">>    \* self.terraform_dir = '../terraform'
log_dir       == <<"..", "logs">>         \* '../logs'
backups_dir   == <<"..", "backups">>      \* '../backups'
scripts_dir   == <<"..", "scripts">>      \* cwd='../scripts'

\* ------------------------------------------------------- declared topology
\* config['infrastructure']['containers']: expected instance count per service
Services == <<"web">>
ExpectedCount == [s \in {"web"} |-> 1]

\* container names the engine can report, in `docker ps` order
Names == <<"web-1", "web-2">>
NameSet == { Names[i] : i \in 1..Len(Names) }

\* `service in c.get('Names', '')`: substring test
NameContains == [n \in NameSet |-> [s \in {"web"} |-> TRUE]]

\* health status printed by `docker inspect`: "" when the container declares
\* no health probe
HealthStates == {"healthy", "unhealthy", ""}

\* volumes labelled for the environment
VolumeNames == {"data", "logs"}

VARIABLES
    \* ---- environment
    repo,          \* layout: path of the checkout (never changes)
    clock,         \* wall clock in seconds
    tfDrift,       \* terraform plan would report changes (exit status 2)
    containers,    \* running containers (subset of NameSet)
    health,        \* health status per running container
    tfstate,       \* live state-file content, 0 = no file
    tfstateCopy,   \* <state-file>.rollback-backup content, 0 = no file
    tfvarsWeb,     \* web_container_count in terraform.tfvars, 0 = unset
    backups,       \* backup store: timestamp -> option of backup contents
    reportLog,     \* report log: timestamp -> option of DriftReport
    rollbackLogs,  \* rollback log store: timestamp -> option of log entry
    drifts,        \* spontaneous infrastructure changes so far
    cycles,        \* operator-started detection cycles so far
    \* ---- remediation engine process (auto-remediate.py)
    pcE, cwdE, auto_approve, drift_report, backup_dir, success,
    remediation_summary, resultE, ctI, ctSuccess, verification,
    \* ---- rollback manager process (rollback.py)
    pcB, cwdB, plan, stepI, rollback_log, resultB,
    \* ---- observation of the current runs (history)
    actionLog,     \* corrective external calls made by the engine run
    gateAnswer,    \* operator's answer per approval prompt of the run
    backupReturned,\* create_backup of the run has returned
    failedActions, \* number of remediation actions that reported failure
    verifyInfo,    \* what the verification of the run observed
    loadedFrom,    \* the report the run acts on: where it came from
    savedLog,      \* _save_rollback_log in the rollback run: "no" = not
                   \* called, "written", or "error" = the write failed
    dry_run,       \* dry_run argument of the execute_rollback_plan call
    args_dry_run,  \* --dry-run option on the command line of the rollback run
    \* ---- the analyzer on its own (SpecAnalyze)
    declared,      \* config['infrastructure']['containers']: count per service
    plan_result,   \* get_terraform_plan's result: None or the exit status
    inventory,     \* get_docker_state's result: None or the `docker ps` list
    statuses,      \* `docker inspect` health status per listed container
    probe_expected,\* listed containers whose declaration has a health probe
    analysis,      \* what the analyze_drift calls made so far returned
    \* ---- notifications
    notified       \* webhook events emitted by the remediation run and by
                   \* the rollback run

envVars == <<repo, clock, tfDrift, containers, health, tfstate, tfstateCopy,
             tfvarsWeb, backups, reportLog, rollbackLogs, drifts, cycles>>
engVars == <<pcE, cwdE, auto_approve, drift_report, backup_dir, success,
             remediation_summary, resultE, ctI, ctSuccess, verification>>
mgrVars == <<pcB, cwdB, plan, stepI, rollback_log, resultB, dry_run,
             args_dry_run>>
obsE    == <<actionLog, gateAnswer, backupReturned, failedActions, verifyInfo,
             loadedFrom>>
obsB    == <<savedLog>>
anaVars == <<declared, plan_result, inventory, statuses, probe_expected,
             analysis>>
vars    == <<envVars, engVars, mgrVars, obsE, obsB, anaVars, notified>>

infra   == <<tfDrift, containers, health, tfstate, tfvarsWeb>>

\* ------------------------------------------------------------- file system
DirExists(p) == p \in Dirs(repo)

BackupsRoot == Append(repo, "backups")
LogsRoot    == Append(repo, "logs")
TerraformRoot == Append(repo, "terraform")

\* running containers in `docker ps` order
RunningSeq(cs) == SelectSeq(Names, LAMBDA n : n \in cs)

\* health normalised: a container that is not running has no status
NormHealth(cs, h) == [n \in NameSet |-> IF n \in cs THEN h[n] ELSE ""]


\* ======================================================== drift detector
PlanOutcomes == {"ok", "error", "none"}

Detail(type, severity, subject, expected, actual, status) ==
    [type |-> type, severity |-> severity, subject |-> subject,
     expected |-> expected, actual |-> actual, status |-> status]

\* get_terraform_plan's result: None, or the plan's exit status
\*   0 = no changes, 1 = error, 2 = changes required
get_terraform_plan(planOut) ==
    IF planOut = "none" THEN None
    ELSE IF planOut = "error" THEN Some(1)
    ELSE Some(IF tfDrift THEN 2 ELSE 0)

\* get_docker_state's result: None, or the running containers
get_docker_state(dockerOK) ==
    IF dockerOK THEN Some(RunningSeq(containers)) ELSE None

\* analyze_drift, lines 186-204, for declared services `services` with
\* expected counts `expected` (-1: the service declares no 'count') and the
\* test `service in c.get('Names', '')` tabulated in contains[name][service]
count_details_of(services, expected, contains, actual_containers) ==
    LET one(i) ==
            LET service == services[i]
                matching == SelectSeq(actual_containers,
                                      LAMBDA n : contains[n][service])
            IN Detail("container_count_drift", "medium", service,
                      expected[service], Len(matching), "")
        all == [i \in 1..Len(services) |-> one(i)]
    IN SelectSeq(all, LAMBDA d : d.expected # -1 /\ d.expected # d.actual)

count_details(actual_containers) ==
    count_details_of(Services, ExpectedCount, NameContains, actual_containers)

health_details(actual_containers, h) ==
    LET all == [i \in 1..Len(actual_containers) |->
                    Detail("health_drift", "high", actual_containers[i],
                           0, 0, h[actual_containers[i]])]
    IN SelectSeq(all, LAMBDA d : d.status # "" /\ d.status # "healthy")

\* variant: the flag follows the plan's exit status only
analyze_drift_plan_flag(terraform_plan, docker_state, h) ==
    IF ~IsSome(terraform_plan)
    THEN [drift_detected |-> FALSE, drift_details |-> <<>>]
    ELSE LET tf == IF Get(terraform_plan) = 2
                   THEN << Detail("terraform_drift", "high", "", 0, 0, "") >>
                   ELSE <<>>
             actual_containers ==
                   IF IsSome(docker_state) THEN Get(docker_state) ELSE <<>>
         IN [drift_detected |-> Get(terraform_plan) = 2,
             drift_details  |-> tf \o count_details(actual_containers)
                                   \o health_details(actual_containers, h)]

\* analyze_drift, lines 166-229, over any declared topology
analyze_drift_of(services, expected, contains, terraform_plan, docker_state, h) ==
    IF ~IsSome(terraform_plan)
    THEN [drift_detected |-> FALSE, drift_details |-> <<>>]
    ELSE LET tf == IF Get(terraform_plan) = 2
                   THEN << Detail("terraform_drift", "high", "", 0, 0, "") >>
                   ELSE <<>>
             actual_containers ==
                   IF IsSome(docker_state) THEN Get(docker_state) ELSE <<>>
             counts  == count_details_of(services, expected, contains,
                                         actual_containers)
             healths == health_details(actual_containers, h)
         IN [drift_detected |-> \/ Get(terraform_plan) = 2
                                \/ counts # <<>>
                                \/ healths # <<>>,
             drift_details  |-> tf \o counts \o healths]

analyze_drift(terraform_plan, docker_state, h) ==
    analyze_drift_of(Services, ExpectedCount, NameContains,
                     terraform_plan, docker_state, h)

generate_drift_report(drift_detected, drift_details, terraform_plan) ==
    [drift_detected |-> drift_detected,
     drift_details  |-> drift_details,
     plan_exit_code |-> IF IsSome(terraform_plan) THEN Get(terraform_plan)
                        ELSE -1]

\* One run of drift-detector.py started in directory startCwd.  The process
\* dies in get_terraform_plan when os.chdir(self.terraform_dir) raises (the
\* FileNotFoundError is not among the exceptions caught there).
run_drift_detection(startCwd, planOut, dockerOK) ==
    LET target == Resolve(startCwd, terraform_dir)
    IN  IF ~DirExists(target)
        THEN [crashed |-> TRUE, report |-> None, exit |-> 1,
              cwd |-> Parent(startCwd)]
        ELSE LET terraform_plan == get_terraform_plan(planOut)
                 docker_state   == get_docker_state(dockerOK)
                 a == analyze_drift(terraform_plan, docker_state, health)
                 report == generate_drift_report(a.drift_detected,
                                                 a.drift_details, terraform_plan)
             IN [crashed |-> FALSE, report |-> Some(report),
                 exit |-> IF report.drift_detected THEN 1 ELSE 0,
                 cwd |-> Parent(target)]

\* run_drift_detection, lines 347-349, with a webhook configured: the number
\* of events a cycle emits
cycle_notifications(report, always_notify) ==
    IF report.drift_detected \/ always_notify THEN 1 ELSE 0

\* the directory whose drift-report-* files reportLog holds
ReportDir == <<"logs">>

\* save_report: '../logs/drift-report-<timestamp>.json', opened with 'w'
save_report(log, cyc, saveOK, ts) ==
    IF cyc.crashed \/ ~saveOK \/ Resolve(cyc.cwd, log_dir) # ReportDir
    THEN log
    ELSE [log EXCEPT ![ts] = cyc.report]

\* the drift-report-* files seen when listing directory dir
ReportsAt(dir, log) ==
    IF dir = ReportDir THEN log ELSE [t \in Timestamps |-> None]

\* sorted(reports)[-1]
latest_report(log) ==
    LET present == { t \in Timestamps : IsSome(log[t]) }
    IN  IF present = {} THEN None
        ELSE log[CHOOSE t \in present : \A u \in present : u <= t]

\* what the infrastructure shows to an analyzer whose collectors all work
TrueDrift ==
    analyze_drift(Some(IF tfDrift THEN 2 ELSE 0),
                  Some(RunningSeq(containers)), health)


\* ==================================================== external tool effects
\* outcome of an external call: exit status 0, non-zero exit status, or the
\* call itself raising (tool not installed); callers that catch every
\* exception treat the last two alike
ToolOutcomes == {"ok", "fail"}
RestartOutcomes == {"ok", "fail", "raise"}

\* a `terraform apply -auto-approve` that exits 0, run with tfvars value w
\* against state-file content st while containers cs with health h run: the
\* declared containers run, the plan is clean, the state-file is rewritten
TerraformApplied(w, st, cs, h) ==
    LET k  == IF w # 0 THEN w ELSE ExpectedCount["web"]
        ds == { Names[i] : i \in 1..(IF k < Len(Names) THEN k ELSE Len(Names)) }
    IN  /\ tfDrift' = FALSE
        /\ containers' = ds
        /\ health' = [n \in NameSet |->
                        IF n \notin ds THEN ""
                        ELSE IF n \in cs THEN h[n] ELSE "healthy"]
        /\ tfstate' = IF st < MaxVer THEN st + 1 ELSE st
        /\ tfvarsWeb' = w

\* the infrastructure after a call sequence that left tfvars value w,
\* state-file st and containers cs with health h, and whose final apply
\* succeeded or not
ApplyIf(applied, w, st, cs, h) ==
    IF applied THEN TerraformApplied(w, st, cs, h)
    ELSE /\ UNCHANGED tfDrift
         /\ containers' = cs
         /\ health' = NormHealth(cs, h)
         /\ tfstate' = st
         /\ tfvarsWeb' = w

Call(name, via) == [call |-> name, via |-> via]

\* ==================================================== remediation engine
EmptyReport == [drift_detected |-> FALSE, drift_details |-> <<>>,
                plan_exit_code |-> 0]
NoVerification == [ran |-> FALSE, ok |-> FALSE, new_report |-> None]
NoVerifyInfo == [launch |-> "none", planFailed |-> FALSE, collectors |-> FALSE,
                 trueDrift |-> -1]
NoAnswers == [tf |-> "none", ct |-> "none", rb |-> "none"]

\* variant: the operator's answer is not consulted
ApprovedAlways(auto, answer) == TRUE

\* `auto_approve or self.get_user_approval(...)`
Approved(auto, answer) == auto \/ answer

AnswerOf(auto, answer) ==
    IF auto THEN "auto" ELSE IF answer THEN "yes" ELSE "no"

\* remediate_terraform_drift: chdir, apply, and the finally-clause chdir('..')
remediate_terraform_drift(cwd, out) ==
    LET target == Resolve(cwd, terraform_dir)
    IN  IF ~DirExists(target)
        THEN [ok |-> FALSE, cwd |-> Parent(cwd), applied |-> FALSE,
              calls |-> <<>>]
        ELSE [ok |-> out = "ok", cwd |-> Parent(target),
              applied |-> out = "ok",
              calls |-> << Call("terraform_apply", "remediate_terraform_drift") >>]

\* scale_containers_via_terraform: rewrite terraform.tfvars, chdir, apply;
\* target is the count written for the service (None: no variable is set)
scale_containers_via_terraform(cwd, service, target_count, out) ==
    LET target == Resolve(cwd, terraform_dir)
    IN  IF ~DirExists(target)
        THEN [ok |-> FALSE, cwd |-> Parent(cwd), applied |-> FALSE,
              tfvars |-> tfvarsWeb, target |-> None, calls |-> <<>>,
              raised |-> FALSE]
        ELSE [ok |-> out = "ok", cwd |-> Parent(target),
              applied |-> out = "ok",
              tfvars |-> IF service = "web" THEN target_count ELSE tfvarsWeb,
              target |-> IF service = "web" THEN Some(target_count) ELSE None,
              calls |-> << Call("tfvars_write", "scale_containers_via_terraform"),
                           Call("terraform_apply", "scale_containers_via_terraform") >>,
              raised |-> FALSE]

\* the container of resource module.web_app.docker_container.web[0]
TaintedResource == Names[1]

\* recreate_container_via_terraform: chdir, taint web[0], apply
recreate_container_via_terraform(cwd, out) ==
    LET target == Resolve(cwd, terraform_dir)
    IN  IF ~DirExists(target)
        THEN [ok |-> FALSE, cwd |-> Parent(cwd), applied |-> FALSE,
              tainted |-> None, calls |-> <<>>]
        ELSE [ok |-> out = "ok", cwd |-> Parent(target),
              applied |-> out = "ok", tainted |-> Some(TaintedResource),
              calls |-> << Call("terraform_taint", "recreate_container_via_terraform"),
                           Call("terraform_apply", "recreate_container_via_terraform") >>]

\* containers[target_count:] of the `docker ps` listing
excess_containers(target_count) ==
    LET running == RunningSeq(containers)
    IN  IF Len(running) > target_count
        THEN { running[i] : i \in (target_count + 1)..Len(running) }
        ELSE {}

container_drifts(report) ==
    SelectSeq(report.drift_details,
              LAMBDA d : d.type \in {"container_count_drift", "health_drift"})

has_terraform_drift(report) ==
    \E i \in 1..Len(report.drift_details) :
        report.drift_details[i].type = "terraform_drift"

\* verify_remediation after the detector subprocess returned exit status rc;
\* visible = the drift-report-* files of '../logs'
verify_compare(rc, visible, original) ==
    LET new_report ==
            IF rc = 0 THEN [drift_detected |-> FALSE, drift_details |-> <<>>,
                            plan_exit_code |-> 0]
            ELSE IF IsSome(latest_report(visible))
                 THEN Get(latest_report(visible))
                 ELSE [drift_detected |-> TRUE, drift_details |-> <<>>,
                       plan_exit_code |-> 0]
    IN  IF ~new_report.drift_detected
        THEN [ran |-> TRUE, ok |-> TRUE, new_report |-> Some(new_report)]
        ELSE IF Len(new_report.drift_details) < Len(original.drift_details)
             THEN [ran |-> TRUE, ok |-> FALSE, new_report |-> Some(new_report)]
             ELSE [ran |-> TRUE, ok |-> FALSE, new_report |-> Some(new_report)]


\* contents of a backup directory: the state-file copy (0 = none) and the
\* volume archives; infrastructure_state.json is written best-effort and no
\* operation reads it back, so it is not part of the state
EmptyBackup == [tfstate |-> 0, volumes |-> {}]

envRest == <<repo, clock, tfstateCopy, backups, reportLog, rollbackLogs,
             drifts, cycles>>
counters == <<drifts, cycles>>

FinishE(res) == pcE' = "done" /\ resultE' = res

\* main: sys.exit(0 if success else 1)
exit_status(res) == IF res = "success" THEN 0 ELSE 1

\* variant: the gates are entered while create_backup is still at work
GateReadyEarly(pc) == pc \in {"backing_up", "tf_gate"}

\* the corrective actions of run_remediation start from this position only
GateReady(pc) == pc = "tf_gate"

\* run_remediation, lines 440-470, in directory cwd: the report of the given
\* file (file # -1), or else the analyzer is started and the newest record
\* of '../logs' is read. log is the report log afterwards, loaded the report
\* obtained, own tells whether loaded is the record that analyzer run wrote
load_report(cwd, file, launch, planOut, dockerOK, saveOK) ==
    LET childCwd == Resolve(cwd, scripts_dir)
        started  == file = -1 /\ DirExists(childCwd) /\ launch = "ran"
        cyc      == run_drift_detection(childCwd, planOut, dockerOK)
        logAfter == IF started
                    THEN save_report(reportLog, cyc, saveOK, clock)
                    ELSE reportLog
        loaded   == IF file # -1 THEN reportLog[file]
                    ELSE IF ~DirExists(childCwd) THEN None
                    ELSE latest_report(
                             ReportsAt(Resolve(cwd, log_dir), logAfter))
        wrote    == /\ started
                    /\ ~cyc.crashed
                    /\ saveOK
                    /\ Resolve(cyc.cwd, log_dir) = ReportDir
    IN  [log |-> logAfter, loaded |-> loaded,
         own |-> wrote /\ loaded = cyc.report]

\* variant: the report is taken as showing drift whatever it says
DriftAssumed(report) == TRUE

\* run_remediation, line 472: `drift_report.get('drift_detected')`
DriftReported(report) == report.drift_detected

\* run_remediation, lines 436-476: obtain the DriftReport
LoadReport ==
    /\ pcE = "idle"
    /\ \E auto \in BOOLEAN,
          file \in {-1} \cup { t \in Timestamps : IsSome(reportLog[t]) },
          launch \in {"ran", "norun"}, planOut \in PlanOutcomes,
          dockerOK \in BOOLEAN, saveOK \in BOOLEAN :
        /\ file # -1 => launch = "norun"
        /\ launch = "norun" => planOut = "ok" /\ dockerOK /\ saveOK
        /\ LET r == load_report(cwdE, file, launch, planOut, dockerOK, saveOK)
               loaded == r.loaded
           IN  /\ reportLog' = r.log
               /\ auto_approve' = auto
               /\ loadedFrom' = IF file # -1 THEN "file"
                                ELSE IF IsSome(loaded) THEN "log" ELSE "none"
               /\ IF ~IsSome(loaded)
                  THEN FinishE("failure") /\ UNCHANGED drift_report
                  ELSE /\ drift_report' = Get(loaded)
                       /\ IF ~DriftReported(Get(loaded))
                          THEN FinishE("success")
                          ELSE pcE' = "drift_found" /\ UNCHANGED resultE
    /\ UNCHANGED <<repo, clock, tfstateCopy, backups, rollbackLogs, counters>>
    /\ UNCHANGED infra
    /\ UNCHANGED <<cwdE, backup_dir, success, remediation_summary, ctI,
                   ctSuccess, verification>>
    /\ UNCHANGED <<actionLog, gateAnswer, backupReturned, failedActions,
                   verifyInfo>>
    /\ UNCHANGED <<mgrVars, obsB>>
    /\ UNCHANGED anaVars
    /\ UNCHANGED notified

\* create_backup, lines 50-56: the timestamped directory is made
BeginBackup ==
    /\ pcE = "drift_found"
    /\ pcE' = "backing_up"
    /\ backup_dir' = Some(clock)
    /\ backups' = IF Resolve(cwdE, backups_dir) = BackupsRoot
                     /\ ~IsSome(backups[clock])
                  THEN [backups EXCEPT ![clock] = Some(EmptyBackup)]
                  ELSE backups
    /\ UNCHANGED <<repo, clock, tfstateCopy, reportLog, rollbackLogs, counters>>
    /\ UNCHANGED infra
    /\ UNCHANGED <<cwdE, auto_approve, drift_report, success,
                   remediation_summary, resultE, ctI, ctSuccess, verification>>
    /\ UNCHANGED <<obsE, mgrVars, obsB>>
    /\ UNCHANGED anaVars
    /\ UNCHANGED notified

\* artifacts of a backup directory
StateArtifact == "terraform.tfstate"
SnapshotArtifact == "infrastructure_state.json"

\* create_backup, lines 58-83, called in directory cwd for the directory
\* backup_<ts> it has made: copy the state-file (cpOK), archive the volumes
\* (volsOK), write the inventory snapshot (snapOK). handle is the returned
\* directory or None; store is the backup store afterwards; written are the
\* artifacts this call has put into the directory; recorded_missing is what
\* the directory says about artifacts it lacks: no file other than the
\* artifacts themselves is written, failures go to the logger only
create_backup(cwd, ts, cpOK, volsOK, snapOK) ==
    LET atRoot == Resolve(cwd, backups_dir) = BackupsRoot
        stateExists == Resolve(cwd, terraform_dir) = TerraformRoot
                       /\ tfstate # 0
        failed == stateExists /\ ~cpOK
        old == IF IsSome(backups[ts]) THEN Get(backups[ts]) ELSE EmptyBackup
        new == [tfstate |-> IF stateExists THEN tfstate ELSE old.tfstate,
                volumes |-> old.volumes \cup
                            (IF volsOK THEN VolumeNames ELSE {})]
    IN  [handle |-> IF failed THEN None ELSE Some(ts),
         store |-> IF atRoot /\ ~failed
                   THEN [backups EXCEPT ![ts] = Some(new)]
                   ELSE backups,
         state_exists |-> stateExists,
         written |-> IF failed THEN {}
                     ELSE (IF stateExists THEN {StateArtifact} ELSE {})
                          \cup (IF volsOK THEN VolumeNames ELSE {})
                          \cup (IF snapOK THEN {SnapshotArtifact} ELSE {}),
         recorded_missing |-> {}]

\* create_backup, lines 58-83: copy the state-file, archive the volumes,
\* return the backup directory or None
EndBackup ==
    /\ pcE = "backing_up"
    /\ \E cpOK \in BOOLEAN, volsOK \in BOOLEAN, snapOK \in BOOLEAN :
        LET r == create_backup(cwdE, Get(backup_dir), cpOK, volsOK, snapOK)
        IN  /\ ~r.state_exists => cpOK
            /\ ~IsSome(r.handle) => volsOK /\ snapOK
            /\ backups' = r.store
            /\ backup_dir' = r.handle
    /\ backupReturned' = TRUE
    /\ pcE' = "tf_gate"
    /\ UNCHANGED <<repo, clock, tfstateCopy, reportLog, rollbackLogs, counters>>
    /\ UNCHANGED infra
    /\ UNCHANGED <<cwdE, auto_approve, drift_report, success,
                   remediation_summary, resultE, ctI, ctSuccess, verification>>
    /\ UNCHANGED <<actionLog, gateAnswer, failedActions, verifyInfo, loadedFrom>>
    /\ UNCHANGED <<mgrVars, obsB>>
    /\ UNCHANGED anaVars
    /\ UNCHANGED notified

\* run_remediation, lines 485-499: the planning-tool gate
TerraformGate ==
    /\ GateReady(pcE)
    /\ pcE' = "ct_gate"
    /\ IF ~has_terraform_drift(drift_report)
       THEN /\ UNCHANGED infra
            /\ UNCHANGED <<cwdE, success, remediation_summary>>
            /\ UNCHANGED <<actionLog, gateAnswer, failedActions>>
       ELSE \E answer \in BOOLEAN, out \in ToolOutcomes :
            IF Approved(auto_approve, answer)
            THEN LET r == remediate_terraform_drift(cwdE, out)
                 IN  /\ cwdE' = r.cwd
                     /\ ApplyIf(r.applied, tfvarsWeb, tfstate, containers, health)
                     /\ remediation_summary' =
                          Append(remediation_summary,
                                 IF r.ok THEN "tf_ok" ELSE "tf_failed")
                     /\ success' = IF r.ok THEN success ELSE FALSE
                     /\ failedActions' = failedActions + (IF r.ok THEN 0 ELSE 1)
                     /\ actionLog' = actionLog \o r.calls
                     /\ gateAnswer' = [gateAnswer EXCEPT
                                         !.tf = AnswerOf(auto_approve, answer)]
            ELSE /\ out = "ok"
                 /\ remediation_summary' =
                          Append(remediation_summary, "tf_skipped")
                 /\ gateAnswer' = [gateAnswer EXCEPT !.tf = "no"]
                 /\ UNCHANGED infra
                 /\ UNCHANGED <<cwdE, success, actionLog, failedActions>>
    /\ UNCHANGED envRest
    /\ UNCHANGED <<auto_approve, drift_report, backup_dir, resultE, ctI,
                   ctSuccess, verification>>
    /\ UNCHANGED <<backupReturned, verifyInfo, loadedFrom>>
    /\ UNCHANGED <<mgrVars, obsB>>
    /\ UNCHANGED anaVars
    /\ UNCHANGED notified

\* run_remediation, lines 501-515: the container gate
ContainerGate ==
    /\ pcE = "ct_gate"
    /\ IF container_drifts(drift_report) = <<>>
       THEN /\ pcE' = "verify"
            /\ UNCHANGED <<remediation_summary, gateAnswer, ctI, ctSuccess>>
       ELSE \E answer \in BOOLEAN :
            IF Approved(auto_approve, answer)
            THEN /\ pcE' = "ct_loop"
                 /\ ctI' = 1
                 /\ ctSuccess' = TRUE
                 /\ gateAnswer' = [gateAnswer EXCEPT
                                     !.ct = AnswerOf(auto_approve, answer)]
                 /\ UNCHANGED remediation_summary
            ELSE /\ pcE' = "verify"
                 /\ remediation_summary' =
                          Append(remediation_summary, "ct_skipped")
                 /\ gateAnswer' = [gateAnswer EXCEPT !.ct = "no"]
                 /\ UNCHANGED <<ctI, ctSuccess>>
    /\ UNCHANGED envRest
    /\ UNCHANGED infra
    /\ UNCHANGED <<cwdE, auto_approve, drift_report, backup_dir, success,
                   resultE, verification>>
    /\ UNCHANGED <<actionLog, backupReturned, failedActions, verifyInfo,
                   loadedFrom>>
    /\ UNCHANGED <<mgrVars, obsB>>

    /\ UNCHANGED anaVars
    /\ UNCHANGED notified

\* fix_container_count: scale up through the planning tool, or remove the
\* excess containers directly; every exception is caught here
fix_container_count(cwd, d, out) ==
    IF d.expected > d.actual
    THEN LET r == scale_containers_via_terraform(cwd, d.subject, d.expected, out)
         IN  [ok |-> r.ok, cwd |-> r.cwd, applied |-> r.applied,
              tfvars |-> r.tfvars, target |-> r.target, calls |-> r.calls,
              removed |-> {}, restarted |-> FALSE, raised |-> FALSE]
    ELSE LET gone == IF out = "ok" THEN excess_containers(d.expected) ELSE {}
         IN  [ok |-> out = "ok", cwd |-> cwd, applied |-> FALSE,
              tfvars |-> tfvarsWeb, target |-> None,
              calls |-> IF gone = {} THEN <<>>
                        ELSE << Call("docker_stop_rm", "remove_excess_containers") >>,
              removed |-> gone, restarted |-> FALSE, raised |-> FALSE]

\* fix_container_health: restart, look at the health again, recreate through
\* the planning tool when still not healthy; only CalledProcessError is caught
fix_container_health(cwd, d, out, out2, hAfter) ==
    LET restart == << Call("docker_restart", "fix_container_health") >>
    IN  IF out = "raise"
        THEN [ok |-> FALSE, cwd |-> cwd, applied |-> FALSE, tfvars |-> tfvarsWeb,
              calls |-> <<>>, removed |-> {}, restarted |-> FALSE,
              tainted |-> None, raised |-> TRUE]
        ELSE IF out = "fail" \/ d.subject \notin containers
        THEN [ok |-> FALSE, cwd |-> cwd, applied |-> FALSE, tfvars |-> tfvarsWeb,
              calls |-> restart, removed |-> {}, restarted |-> FALSE,
              tainted |-> None, raised |-> FALSE]
        ELSE IF hAfter = "healthy"
        THEN [ok |-> TRUE, cwd |-> cwd, applied |-> FALSE, tfvars |-> tfvarsWeb,
              calls |-> restart, removed |-> {}, restarted |-> TRUE,
              tainted |-> None, raised |-> FALSE]
        ELSE LET r == recreate_container_via_terraform(cwd, out2)
             IN  [ok |-> r.ok, cwd |-> r.cwd, applied |-> r.applied,
                  tfvars |-> tfvarsWeb, calls |-> restart \o r.calls,
                  removed |-> {}, restarted |-> TRUE, tainted |-> r.tainted,
                  raised |-> FALSE]

\* remediate_container_drift, lines 144-150: one iteration of the loop, and
\* after the last one run_remediation's lines 509-513
ContainerStep ==
    /\ pcE = "ct_loop"
    /\ \E out \in RestartOutcomes, out2 \in ToolOutcomes,
          hAfter \in {"healthy", "unhealthy"} :
        LET ds == container_drifts(drift_report)
            d  == ds[ctI]
            r  == IF d.type = "container_count_drift"
                  THEN fix_container_count(cwdE, d, out)
                  ELSE fix_container_health(cwdE, d, out, out2, hAfter)
            cs == containers \ r.removed
            hr == IF r.restarted THEN [health EXCEPT ![d.subject] = hAfter]
                  ELSE health
            \* a tainted resource is replaced by the apply: a fresh container
            h  == IF d.type = "health_drift" /\ r.applied /\ IsSome(r.tainted)
                  THEN [hr EXCEPT ![Get(r.tainted)] =
                           IF Get(r.tainted) \in cs THEN "healthy" ELSE @]
                  ELSE hr
            all_ok == ctSuccess /\ r.ok
        IN  /\ d.type = "container_count_drift" =>
                  out # "raise" /\ out2 = "ok" /\ hAfter = "healthy"
            /\ (out # "ok" \/ d.subject \notin containers) =>
                  out2 = "ok" /\ hAfter = "healthy"
            /\ hAfter = "healthy" => out2 = "ok"
            /\ cwdE' = r.cwd
            /\ ApplyIf(r.applied, r.tfvars, tfstate, cs, h)
            /\ actionLog' = actionLog \o r.calls
            /\ IF r.raised
               THEN /\ pcE' = "except"
                    /\ UNCHANGED <<ctI, ctSuccess, success,
                                   remediation_summary, failedActions>>
               ELSE /\ failedActions' = failedActions + (IF r.ok THEN 0 ELSE 1)
                    /\ ctSuccess' = all_ok
                    /\ IF ctI < Len(ds)
                       THEN /\ ctI' = ctI + 1
                            /\ pcE' = "ct_loop"
                            /\ UNCHANGED <<success, remediation_summary>>
                       ELSE /\ pcE' = "verify"
                            /\ UNCHANGED ctI
                            /\ remediation_summary' =
                                 Append(remediation_summary,
                                        IF all_ok THEN "ct_ok" ELSE "ct_failed")
                            /\ success' = IF all_ok THEN success ELSE FALSE
    /\ UNCHANGED envRest
    /\ UNCHANGED <<auto_approve, drift_report, backup_dir, resultE, verification>>
    /\ UNCHANGED <<gateAnswer, backupReturned, verifyInfo, loadedFrom>>
    /\ UNCHANGED <<mgrVars, obsB>>
    /\ UNCHANGED anaVars
    /\ UNCHANGED notified

\* send_remediation_notification with a webhook configured: the number of
\* events emitted; a failing requests.post is logged and nothing is raised
send_remediation_notification(delivered) == 1

\* verify_remediation, lines 297-345, in directory cwd against the report
\* original: the analyzer is started again; v is the returned pair, log the
\* report log afterwards, from_log tells whether the new report was read
\* from '../logs', own whether it is the record that analyzer run wrote
verify_remediation(cwd, original, launch, planOut, dockerOK, saveOK) ==
    LET childCwd == Resolve(cwd, scripts_dir)
        raised   == ~DirExists(childCwd)
        ran      == ~raised /\ launch = "ran"
        cyc      == run_drift_detection(childCwd, planOut, dockerOK)
        rc       == IF ran THEN cyc.exit ELSE 2
        logAfter == IF ran
                    THEN save_report(reportLog, cyc, saveOK, clock)
                    ELSE reportLog
        visible  == ReportsAt(Resolve(cwd, log_dir), logAfter)
        v == IF raised
             THEN [ran |-> TRUE, ok |-> FALSE, new_report |-> None]
             ELSE verify_compare(rc, visible, original)
        wrote    == /\ ran
                    /\ ~cyc.crashed
                    /\ saveOK
                    /\ Resolve(cyc.cwd, log_dir) = ReportDir
    IN  [v |-> v, log |-> logAfter,
         launch |-> IF raised THEN "raised"
                    ELSE IF ~ran THEN "norun"
                    ELSE IF cyc.crashed THEN "crashed"
                    ELSE "ran",
         planFailed |-> ran /\ ~cyc.crashed /\ planOut = "none",
         from_log |-> ~raised /\ rc # 0 /\ IsSome(latest_report(visible)),
         own |-> wrote /\ v.new_report = cyc.report]

\* run_remediation, lines 517-530: verify when nothing failed, notify, return
VerifyAndReturn ==
    /\ pcE = "verify"
    /\ IF ~success
       THEN /\ FinishE("failure")
            /\ UNCHANGED <<reportLog, verification, verifyInfo, success,
                           remediation_summary>>
       ELSE \E launch \in {"ran", "norun"}, planOut \in PlanOutcomes,
               dockerOK \in BOOLEAN, saveOK \in BOOLEAN :
            /\ launch = "norun" => planOut = "ok" /\ dockerOK /\ saveOK
            /\ ~DirExists(Resolve(cwdE, scripts_dir)) => launch = "norun"
            /\ LET r == verify_remediation(cwdE, drift_report, launch, planOut,
                                           dockerOK, saveOK)
                   v == r.v
               IN  /\ reportLog' = r.log
                   /\ verification' = v
                   /\ verifyInfo' =
                        [launch |-> r.launch,
                         planFailed |-> r.planFailed,
                         collectors |-> planOut = "ok" /\ dockerOK,
                         trueDrift  |-> Len(TrueDrift.drift_details)]
                   /\ remediation_summary' =
                        Append(remediation_summary,
                               IF v.ok THEN "verify_ok" ELSE "verify_failed")
                   /\ success' = v.ok
                   /\ FinishE(IF v.ok THEN "success" ELSE "failure")
    /\ UNCHANGED <<repo, clock, tfstateCopy, backups, rollbackLogs, counters>>
    /\ UNCHANGED infra
    /\ UNCHANGED <<cwdE, auto_approve, drift_report, backup_dir, ctI, ctSuccess>>
    /\ UNCHANGED <<actionLog, gateAnswer, backupReturned, failedActions,
                   loadedFrom>>
    /\ UNCHANGED <<mgrVars, obsB>>
    /\ UNCHANGED anaVars
    /\ \E delivered \in BOOLEAN :
          notified' = [notified EXCEPT !.remediation =
                          @ + send_remediation_notification(delivered)]

\* rollback_changes, lines 347-378
rollback_changes(cwd, bdir, cpOK, out) ==
    LET target == Resolve(cwd, terraform_dir)
        found  == /\ IsSome(bdir)
                  /\ Resolve(cwd, backups_dir) = BackupsRoot
                  /\ IsSome(backups[Get(bdir)])
    IN  IF ~found
        THEN [ok |-> FALSE, cwd |-> cwd, state |-> tfstate, applied |-> FALSE,
              calls |-> <<>>]
        ELSE LET b == Get(backups[Get(bdir)])
             IN  IF b.tfstate = 0
                 THEN [ok |-> TRUE, cwd |-> cwd, state |-> tfstate,
                       applied |-> FALSE, calls |-> <<>>]
                 ELSE IF ~cpOK \/ ~DirExists(target)
                 THEN [ok |-> FALSE, cwd |-> cwd, state |-> tfstate,
                       applied |-> FALSE,
                       calls |-> << Call("cp_tfstate", "rollback_changes") >>]
                 ELSE [ok |-> out = "ok",
                       cwd |-> IF out = "ok" THEN Parent(target) ELSE target,
                       state |-> b.tfstate, applied |-> out = "ok",
                       calls |-> << Call("cp_tfstate", "rollback_changes"),
                                    Call("terraform_apply", "rollback_changes") >>]

\* run_remediation, lines 532-540: the exception handler
RollbackOffer ==
    /\ pcE = "except"
    /\ FinishE("failure")
    /\ IF IsSome(backup_dir) /\ ~auto_approve
       THEN \E answer \in BOOLEAN, cpOK \in BOOLEAN, out \in ToolOutcomes :
            /\ gateAnswer' = [gateAnswer EXCEPT
                                !.rb = IF answer THEN "yes" ELSE "no"]
            /\ IF answer
               THEN LET r == rollback_changes(cwdE, backup_dir, cpOK, out)
                    IN  /\ cwdE' = r.cwd
                        /\ ApplyIf(r.applied, tfvarsWeb, r.state, containers,
                                   health)
                        /\ actionLog' = actionLog \o r.calls
               ELSE /\ cpOK /\ out = "ok"
                    /\ UNCHANGED infra
                    /\ UNCHANGED <<cwdE, actionLog>>
       ELSE /\ UNCHANGED infra
            /\ UNCHANGED <<cwdE, actionLog, gateAnswer>>
    /\ UNCHANGED envRest
    /\ UNCHANGED <<auto_approve, drift_report, backup_dir, success,
                   remediation_summary, ctI, ctSuccess, verification>>
    /\ UNCHANGED <<backupReturned, failedActions, verifyInfo, loadedFrom>>
    /\ UNCHANGED <<mgrVars, obsB>>
    /\ UNCHANGED anaVars
    /\ UNCHANGED notified

InitEngine ==
    /\ notified = [remediation |-> 0, rollback |-> 0]
    /\ pcE = "idle"
    /\ cwdE = StartCwd(repo)
    /\ auto_approve = FALSE
    /\ drift_report = EmptyReport
    /\ backup_dir = None
    /\ success = TRUE
    /\ remediation_summary = <<>>
    /\ resultE = "none"
    /\ ctI = 0
    /\ ctSuccess = TRUE
    /\ verification = NoVerification
    /\ actionLog = <<>>
    /\ gateAnswer = NoAnswers
    /\ backupReturned = FALSE
    /\ failedActions = 0
    /\ verifyInfo = NoVerifyInfo
    /\ loadedFrom = "none"

\* ============================================================ environment
\* Infrastructure changes, clock ticks and scheduled detection cycles are
\* explored between the runs of the tools, at most MaxEvents of them; while a
\* run is in progress the infrastructure changes through the run's own tool
\* calls only.
EnvActive ==
    /\ pcE = "idle"
    /\ pcB = "idle"
    /\ clock + drifts + cycles < MaxEvents

Tick ==
    /\ EnvActive
    /\ clock < MaxClock
    /\ clock' = clock + 1
    /\ UNCHANGED <<repo, tfDrift, containers, health, tfstate, tfstateCopy,
                   tfvarsWeb, backups, reportLog, rollbackLogs, counters>>
    /\ UNCHANGED <<engVars, mgrVars, obsE, obsB>>
    /\ UNCHANGED anaVars
    /\ UNCHANGED notified

\* the infrastructure drifts: somebody changes a resource by hand, a
\* container starts or stops, a health probe changes its verdict
EnvDrift ==
    /\ EnvActive
    /\ drifts < MaxDrift
    /\ drifts' = drifts + 1
    /\ \/ /\ tfDrift' = ~tfDrift
          /\ UNCHANGED <<containers, health>>
       \/ \E n \in NameSet, hs \in HealthStates :
          /\ containers' = IF n \in containers THEN containers \ {n}
                           ELSE containers \cup {n}
          /\ hs = "" \/ n \notin containers
          /\ n \in containers => hs = ""
          /\ health' = [health EXCEPT ![n] = hs]
          /\ UNCHANGED tfDrift
       \/ \E n \in containers, hs \in HealthStates :
          /\ hs # health[n]
          /\ health' = [health EXCEPT ![n] = hs]
          /\ UNCHANGED <<tfDrift, containers>>
    /\ UNCHANGED <<repo, clock, tfstate, tfstateCopy, tfvarsWeb, backups,
                   reportLog, rollbackLogs, cycles>>
    /\ UNCHANGED <<engVars, mgrVars, obsE, obsB>>
    /\ UNCHANGED anaVars
    /\ UNCHANGED notified

\* drift-detector.py run by the operator or the scheduler from StartCwd
DetectionCycle ==
    /\ EnvActive
    /\ cycles < MaxCycles
    /\ cycles' = cycles + 1
    /\ \E planOut \in PlanOutcomes, dockerOK \in BOOLEAN, saveOK \in BOOLEAN :
        reportLog' = save_report(reportLog,
                         run_drift_detection(StartCwd(repo), planOut, dockerOK),
                         saveOK, clock)
    /\ UNCHANGED <<repo, clock, tfDrift, containers, health, tfstate,
                   tfstateCopy, tfvarsWeb, backups, rollbackLogs, drifts>>
    /\ UNCHANGED <<engVars, mgrVars, obsE, obsB>>
    /\ UNCHANGED anaVars
    /\ UNCHANGED notified

InitEnv ==
    /\ repo \in Layouts
    /\ clock = 0
    /\ tfDrift \in BOOLEAN
    /\ containers = { Names[i] : i \in 1..ExpectedCount["web"] }
    /\ health = NormHealth(containers, [n \in NameSet |-> "healthy"])
    /\ tfstate \in {0, 1}
    /\ tfstateCopy = 0
    /\ tfvarsWeb = 0
    /\ backups = [t \in Timestamps |-> None]
    /\ reportLog = [t \in Timestamps |-> None]
    /\ rollbackLogs = [t \in Timestamps |-> None]
    /\ drifts = 0
    /\ cycles = 0

\* ======================================================== rollback manager
RECURSIVE SetToSeq(_)
SetToSeq(S) ==
    IF S = {} THEN <<>>
    ELSE LET x == CHOOSE y \in S : TRUE IN << x >> \o SetToSeq(S \ {x})

\* variant: oldest first
RECURSIVE AscendingSeq(_)
AscendingSeq(S) ==
    IF S = {} THEN <<>>
    ELSE LET m == CHOOSE y \in S : \A z \in S : y <= z
         IN  << m >> \o AscendingSeq(S \ {m})

\* backups.sort(key=lambda x: x['created_at'], reverse=True)
RECURSIVE DescendingSeq(_)
DescendingSeq(S) ==
    IF S = {} THEN <<>>
    ELSE LET m == CHOOSE y \in S : \A z \in S : z <= y
         IN  << m >> \o DescendingSeq(S \ {m})

\* an entry of the '../backups' directory: whether it is a directory,
\* whether its name starts with 'backup_', and the timestamp the rest of the
\* name parses to (None when strptime raises ValueError)
Item(isdir, prefixed, stamp) ==
    [isdir |-> isdir, prefixed |-> prefixed, stamp |-> stamp]

\* entries other than backups that the directory holds: a directory
\* 'backup_old', a directory 'tmp' and a file 'backup_0.txt'
StrayItems ==
    { Item(TRUE, TRUE, None), Item(TRUE, FALSE, None),
      Item(FALSE, TRUE, None) }

\* os.listdir(self.backup_dir)
listdir_backups ==
    StrayItems
      \cup { Item(TRUE, TRUE, Some(t)) : t \in { u \in Timestamps :
                                                   IsSome(backups[u]) } }

\* list_backups, lines 56-60 and 78: the entries that get a backup_info
Listed(item) ==
    /\ item.isdir
    /\ item.prefixed
    /\ IsSome(item.stamp)

\* list_backups: the backup_<timestamp> directories of '../backups', newest
\* first, each with what it holds
list_backups(cwd) ==
    IF Resolve(cwd, backups_dir) # BackupsRoot THEN <<>>
    ELSE LET ids == DescendingSeq({ Get(item.stamp) :
                        item \in { x \in listdir_backups : Listed(x) } })
         IN  [i \in 1..Len(ids) |->
                 [id |-> ids[i],
                  has_terraform_state |-> Get(backups[ids[i]]).tfstate # 0,
                  volume_backups |-> SetToSeq(Get(backups[ids[i]]).volumes)]]

\* show_backup_details: next(b for b in backups if b['id'] == backup_id)
show_backup_details(cwd, backup_id) ==
    LET found == SelectSeq(list_backups(cwd), LAMBDA b : b.id = backup_id)
    IN  IF found = <<>> THEN None ELSE Some(found[1])

Step(order, action, volume) ==
    [order |-> order, action |-> action, volume |-> volume]

\* variant: the same steps for every backup, whatever it holds
create_rollback_plan_fixed(cwd, backup_id) ==
    IF ~IsSome(show_backup_details(cwd, backup_id)) THEN None
    ELSE Some(<< Step(1, "stop_containers", ""),
                 Step(2, "restore_terraform_state", ""),
                 Step(3, "restore_volume", "data"),
                 Step(4, "terraform_apply", ""),
                 Step(5, "verify_rollback", "") >>)

\* create_rollback_plan: the steps in the order they are appended
create_rollback_plan(cwd, backup_id) ==
    LET found == show_backup_details(cwd, backup_id)
    IN  IF ~IsSome(found) THEN None
        ELSE LET backup == Get(found)
                 vols == backup.volume_backups
             IN  Some(
                   << Step(1, "stop_containers", "") >>
                   \o (IF backup.has_terraform_state
                       THEN << Step(2, "restore_terraform_state", "") >>
                       ELSE <<>>)
                   \o [i \in 1..Len(vols) |-> Step(3, "restore_volume", vols[i])]
                   \o (IF backup.has_terraform_state
                       THEN << Step(4, "terraform_apply", "") >>
                       ELSE <<>>)
                   \o << Step(5, "verify_rollback", "") >>)

\* sorted(plan['steps'], key=lambda x: x['order']): a stable sort
RECURSIVE sorted_steps(_)
sorted_steps(steps) ==
    IF steps = <<>> THEN <<>>
    ELSE LET lowest == CHOOSE i \in 1..Len(steps) :
                         /\ \A j \in 1..Len(steps) : steps[i].order <= steps[j].order
                         /\ \A j \in 1..(i - 1) : steps[j].order # steps[i].order
             rest == [j \in 1..(Len(steps) - 1) |->
                        IF j < lowest THEN steps[j] ELSE steps[j + 1]]
         IN  << steps[lowest] >> \o sorted_steps(rest)

\* variant: the loop goes on after a step that reported failure
AfterStepContinue(ok, last) ==
    IF last THEN (IF ok THEN "finished" ELSE "failed") ELSE "next"

\* execute_rollback_plan, lines 231-233: what follows a step that reported
\* success or failure
AfterStep(ok, last) ==
    IF ~ok THEN "failed" ELSE IF last THEN "finished" ELSE "next"

\* _save_rollback_log is reached on these exits of execute_rollback_plan
SavesLog(exit) == exit \in {"finished", "raised"}

LogEntry(order, action, ok, ts) ==
    [step |-> order, action |-> action, success |-> ok, timestamp |-> ts]

InitManager ==
    /\ pcB = "idle"
    /\ cwdB = StartCwd(repo)
    /\ plan = <<>>
    /\ stepI = 0
    /\ rollback_log = <<>>
    /\ resultB = "none"
    /\ savedLog = "no"
    /\ dry_run = FALSE
    /\ args_dry_run = FALSE

\* quick_rollback, lines 387-402: the backup the run goes back to; -1 is
\* backup_id = None
quick_rollback_target(cwd, backup_id) ==
    LET listed == list_backups(cwd)
    IN  IF backup_id = -1
        THEN IF listed = <<>> THEN None ELSE Some(listed[1].id)
        ELSE IF \E i \in 1..Len(listed) : listed[i].id = backup_id
             THEN Some(backup_id) ELSE None

\* main, lines 429-432 and 464-466: what `rollback` passes on as the dry_run
\* argument of execute_rollback_plan when --dry-run is or is not given:
\* quick_rollback takes no such argument and calls execute_rollback_plan(plan)
passed_dry_run(opt) == FALSE

\* rollback.py rollback [--backup-id ID] [--dry-run]: quick_rollback up to
\* the plan; opt tells whether --dry-run was given
RollbackCommand(opt) ==
    /\ pcB = "idle"
    /\ \E backup_id \in {-1} \cup Timestamps :
        LET chosen == quick_rollback_target(cwdB, backup_id)
            p == IF IsSome(chosen)
                 THEN create_rollback_plan(cwdB, Get(chosen)) ELSE None
        IN  IF ~IsSome(p)
            THEN /\ pcB' = "done"
                 /\ resultB' = "failure"
                 /\ UNCHANGED <<plan, stepI>>
            ELSE /\ pcB' = "exec"
                 /\ plan' = [backup_id |-> Get(chosen),
                             steps |-> sorted_steps(Get(p))]
                 /\ stepI' = 1
                 /\ UNCHANGED resultB
    /\ rollback_log' = <<>>
    /\ dry_run' = passed_dry_run(opt)
    /\ args_dry_run' = opt
    /\ UNCHANGED <<cwdB, savedLog>>
    /\ UNCHANGED <<envVars, engVars, obsE>>
    /\ UNCHANGED anaVars
    /\ UNCHANGED notified

\* rollback.py rollback [--backup-id ID]
StartRollback == RollbackCommand(FALSE)

\* rollback.py rollback [--backup-id ID] --dry-run
StartRollbackDryRun == RollbackCommand(TRUE)

\* variant: the dry_run argument is not looked at
ReturnsBeforeLoopNever(dry) == FALSE

\* execute_rollback_plan, lines 194-200: with dry_run the steps are logged
\* and the function returns True before the loop
ReturnsBeforeLoop(dry) == dry

\* rollback.py plan --backup-id ID: create_rollback_plan, then
\* execute_rollback_plan(plan, dry_run=True)
PlanCommand ==
    /\ pcB = "idle"
    /\ \E backup_id \in Timestamps :
        LET p == create_rollback_plan(cwdB, backup_id)
        IN  IF ~IsSome(p)
            THEN /\ pcB' = "done"
                 /\ UNCHANGED <<plan, stepI, resultB, dry_run>>
            ELSE /\ plan' = [backup_id |-> backup_id,
                             steps |-> sorted_steps(Get(p))]
                 /\ dry_run' = TRUE
                 /\ IF ReturnsBeforeLoop(TRUE)
                    THEN /\ pcB' = "done"
                         /\ resultB' = "success"
                         /\ UNCHANGED stepI
                    ELSE /\ pcB' = "exec"
                         /\ stepI' = 1
                         /\ UNCHANGED resultB
    /\ rollback_log' = <<>>
    /\ UNCHANGED <<cwdB, savedLog>>
    /\ UNCHANGED <<envVars, engVars, obsE>>
    /\ UNCHANGED anaVars
    /\ UNCHANGED args_dry_run
    /\ UNCHANGED notified

\* the five step implementations; each yields
\*   ok       the step's return value
\*   raised   the step raised instead of returning
_stop_containers(out) ==
    [ok |-> out = "ok", raised |-> out = "raise"]

\* variant: the backup's copy goes over the live state-file directly
_restore_without_copy(cwd, backup_id, copyOK, restoreOK) ==
    LET destDir  == Resolve(cwd, terraform_dir)
        srcThere == /\ Resolve(cwd, backups_dir) = BackupsRoot
                    /\ IsSome(backups[backup_id])
                    /\ Get(backups[backup_id]).tfstate # 0
        restored == srcThere /\ DirExists(destDir) /\ restoreOK
    IN  [ok |-> restored, raised |-> FALSE,
         copy  |-> tfstateCopy,
         state |-> IF restored /\ destDir = TerraformRoot
                   THEN Get(backups[backup_id]).tfstate ELSE tfstate]

\* _restore_terraform_state: defensive copy of the live state-file, then the
\* backup's copy over it; every exception is caught
_restore_terraform_state(cwd, backup_id, copyOK, restoreOK) ==
    LET destDir   == Resolve(cwd, terraform_dir)
        destThere == destDir = TerraformRoot /\ tfstate # 0
        srcThere  == /\ Resolve(cwd, backups_dir) = BackupsRoot
                     /\ IsSome(backups[backup_id])
                     /\ Get(backups[backup_id]).tfstate # 0
        copied    == destThere /\ copyOK
        restored  == /\ destThere => copyOK
                     /\ srcThere /\ DirExists(destDir) /\ restoreOK
    IN  [ok |-> restored, raised |-> FALSE,
         copy  |-> IF copied THEN tfstate ELSE tfstateCopy,
         state |-> IF restored /\ destDir = TerraformRoot
                   THEN Get(backups[backup_id]).tfstate ELSE tfstate]

_restore_volume(out) ==
    [ok |-> out = "ok", raised |-> out = "raise"]

\* _terraform_apply: chdir, apply, and the finally-clause chdir('..')
_terraform_apply(cwd, out) ==
    LET target == Resolve(cwd, terraform_dir)
    IN  IF ~DirExists(target)
        THEN [ok |-> FALSE, raised |-> FALSE, cwd |-> Parent(cwd),
              applied |-> FALSE]
        ELSE [ok |-> out = "ok", raised |-> FALSE, cwd |-> Parent(target),
              applied |-> out = "ok"]

\* _verify_rollback: the detector's exit status decides
_verify_rollback(rc) ==
    [ok |-> rc = 0, raised |-> FALSE]

\* execute_rollback_plan, lines 207-244: one iteration of the loop, with the
\* exit taken after it
ExecStep ==
    /\ pcB = "exec"
    /\ \E out \in RestartOutcomes, copyOK \in BOOLEAN, restoreOK \in BOOLEAN,
          launch \in {"ran", "norun"}, planOut \in PlanOutcomes,
          dockerOK \in BOOLEAN, saveOK \in BOOLEAN, logOK \in BOOLEAN :
        LET step == plan.steps[stepI]
            a    == step.action
            cyc  == run_drift_detection(cwdB, planOut, dockerOK)
            rc   == IF launch = "ran" THEN cyc.exit ELSE 2
            rs   == _restore_terraform_state(cwdB, plan.backup_id, copyOK,
                                             restoreOK)
            ap   == _terraform_apply(cwdB, out)
            r    == IF a = "stop_containers" THEN _stop_containers(out)
                    ELSE IF a = "restore_terraform_state"
                         THEN [ok |-> rs.ok, raised |-> FALSE]
                    ELSE IF a = "restore_volume" THEN _restore_volume(out)
                    ELSE IF a = "terraform_apply"
                         THEN [ok |-> ap.ok, raised |-> FALSE]
                    ELSE _verify_rollback(rc)
            exit == IF r.raised THEN "raised"
                    ELSE AfterStep(r.ok, stepI = Len(plan.steps))
            log  == IF r.raised THEN rollback_log
                    ELSE Append(rollback_log,
                                LogEntry(step.order, a, r.ok, clock))
        IN  \* inputs a step does not use are fixed
            /\ a \notin {"stop_containers", "restore_volume", "terraform_apply"}
                  => out = "ok"
            /\ a = "terraform_apply" => out # "raise"
            /\ a # "restore_terraform_state" => copyOK /\ restoreOK
            /\ a # "verify_rollback" => launch = "norun"
            /\ launch = "norun" => planOut = "ok" /\ dockerOK
            /\ launch = "norun" => saveOK
            /\ ~SavesLog(exit) => logOK
            \* effects of the step
            /\ cwdB' = IF a = "terraform_apply" THEN ap.cwd ELSE cwdB
            /\ tfstateCopy' = IF a = "restore_terraform_state" THEN rs.copy
                              ELSE tfstateCopy
            /\ IF a = "terraform_apply"
               THEN ApplyIf(ap.applied, tfvarsWeb, tfstate, containers, health)
               ELSE IF a = "restore_terraform_state"
               THEN ApplyIf(FALSE, tfvarsWeb, rs.state, containers, health)
               ELSE IF a = "stop_containers" /\ r.ok
               THEN ApplyIf(FALSE, tfvarsWeb, tfstate, {}, health)
               ELSE UNCHANGED infra
            /\ reportLog' = IF a = "verify_rollback" /\ launch = "ran"
                            THEN save_report(reportLog, cyc, saveOK, clock)
                            ELSE reportLog
            \* the log and the exit
            /\ rollback_log' = log
            /\ IF exit = "next"
               THEN /\ stepI' = stepI + 1
                    /\ UNCHANGED <<pcB, resultB, savedLog, rollbackLogs>>
               ELSE /\ pcB' = "done"
                    /\ resultB' = IF exit = "finished" THEN "success"
                                  ELSE "failure"
                    /\ UNCHANGED stepI
                    /\ savedLog' = IF ~SavesLog(exit) THEN "no"
                                   ELSE IF logOK THEN "written" ELSE "error"
                    /\ IF SavesLog(exit) /\ logOK
                       THEN rollbackLogs' =
                                 [rollbackLogs EXCEPT ![clock] =
                                    Some([backup_id |-> plan.backup_id,
                                          steps |-> log,
                                          success |-> exit = "finished"])]
                       ELSE UNCHANGED rollbackLogs
    /\ UNCHANGED <<plan, dry_run, args_dry_run>>
    /\ UNCHANGED <<repo, clock, backups, drifts, cycles>>
    /\ UNCHANGED <<engVars, obsE>>
    /\ UNCHANGED anaVars
    /\ UNCHANGED notified

\* ------------------------------------------------- the analyzer on its own
MaxCount == 1       \* expected instance counts are 0..MaxCount
MaxRuns  == 2       \* analyze_drift calls on the same inputs

\* a name is a sequence of the parts a '-' separates: service "web-api" is
\* <<"web", "api">> and its first container <<"web", "api", "1">>
TopoServices == << <<"api">>, <<"web", "api">> >>
TopoNames == << <<"api", "1">>, <<"api", "2">>, <<"web", "api", "1">> >>

\* `service in name` on strings: the service occurs somewhere in the name
IsInfix(s, n) ==
    \E k \in 0..(Len(n) - Len(s)) : SubSeq(n, k + 1, k + Len(s)) = s

TopoContains ==
    [n \in { TopoNames[i] : i \in 1..Len(TopoNames) } |->
        [s \in { TopoServices[i] : i \in 1..Len(TopoServices) } |->
            IsInfix(s, n)]]

\* status a `docker inspect --format {{.State.Health.Status}}` prints; ""
\* when the container has no health section
ProbeStates == {"healthy", "unhealthy", "starting", ""}

\* the other specifications make no use of the analyzer's own inputs
AnalyzerIdle ==
    /\ declared = <<>>
    /\ plan_result = None
    /\ inventory = None
    /\ statuses = <<>>
    /\ probe_expected = {}
    /\ analysis = <<>>

\* variant: a later call reports only what the call before it did not
analyze_declared_news(terraform_plan, docker_state, h) ==
    LET a == analyze_drift_of(TopoServices, declared, TopoContains,
                              terraform_plan, docker_state, h)
        seen == IF analysis = <<>> THEN <<>>
                ELSE analysis[Len(analysis)].drift_details
        news == SelectSeq(a.drift_details,
                          LAMBDA d : \A j \in 1..Len(seen) : seen[j] # d)
    IN  [drift_detected |-> news # <<>>, drift_details |-> news]

\* analyze_drift with the configuration the detector was constructed with
analyze_declared(terraform_plan, docker_state, h) ==
    analyze_drift_of(TopoServices, declared, TopoContains,
                     terraform_plan, docker_state, h)

\* one call of analyze_drift
Analyze ==
    /\ Len(analysis) < MaxRuns
    /\ analysis' = Append(analysis,
                          analyze_declared(plan_result, inventory, statuses))
    /\ UNCHANGED <<declared, plan_result, inventory, statuses, probe_expected>>
    /\ UNCHANGED <<envVars, engVars, mgrVars, obsE, obsB>>
    /\ UNCHANGED notified

Init == InitEnv /\ InitEngine /\ InitManager /\ AnalyzerIdle

Next ==
    \/ Tick
    \/ EnvDrift
    \/ DetectionCycle
    \/ LoadReport
    \/ BeginBackup
    \/ EndBackup
    \/ TerraformGate
    \/ ContainerGate
    \/ ContainerStep
    \/ VerifyAndReturn
    \/ RollbackOffer

Spec == Init /\ [][Next]_vars

\* ------------------------------------------------ rollback runs on their own
BackupContents ==
    { [tfstate |-> v, volumes |-> vs] :
        v \in 0..MaxVer, vs \in SUBSET VolumeNames }

\* the backup store holds what earlier remediation runs left there: any set
\* of backup directories, one of them with any contents, the others with the
\* directory only (create_backup found no state-file and no volume). The
\* rollback is started on an infrastructure that differs from its
\* configuration; no step of it reads that fact, the reapply step clears it
InitRollback ==
    /\ repo \in Layouts
    /\ clock = 0
    /\ tfDrift = TRUE
    /\ containers = { Names[i] : i \in 1..ExpectedCount["web"] }
    /\ health = NormHealth(containers, [n \in NameSet |-> "healthy"])
    /\ tfstate \in 0..MaxVer
    /\ tfstateCopy = 0
    /\ tfvarsWeb = 0
    /\ \E present \in SUBSET Timestamps, full \in Timestamps,
          b \in BackupContents :
          backups = [t \in Timestamps |->
                        IF t \notin present THEN None
                        ELSE IF t = full THEN Some(b)
                        ELSE Some(EmptyBackup)]
    /\ reportLog = [t \in Timestamps |-> None]
    /\ rollbackLogs = [t \in Timestamps |-> None]
    /\ drifts = 0
    /\ cycles = 0
    /\ InitEngine
    /\ InitManager
    /\ AnalyzerIdle

NextRollback ==
    \/ Tick
    \/ StartRollback
    \/ PlanCommand
    \/ ExecStep

SpecRollback == InitRollback /\ [][NextRollback]_vars

\* ------------------------------- rollback runs, with and without --dry-run
NextDryRun ==
    \/ Tick
    \/ StartRollback
    \/ StartRollbackDryRun
    \/ PlanCommand
    \/ ExecStep

SpecDryRun == InitRollback /\ [][NextDryRun]_vars

\* ------------------- a remediation run or a rollback run on a filled store
\* An earlier remediation run has left one backup, possibly within the
\* current second; the plan shows changes and any container may be unhealthy.
\* The operator runs one of the two tools (their interleaving is SpecConc).
StoredContents ==
    { [tfstate |-> v, volumes |-> vs] :
        v \in {0, MaxVer}, vs \in {{}, VolumeNames} }

InitStore ==
    /\ repo \in Layouts
    /\ clock = 0
    /\ tfDrift = TRUE
    /\ containers = NameSet
    /\ health \in [NameSet -> {"healthy", "unhealthy"}]
    /\ tfstate = 1
    /\ tfstateCopy = 0
    /\ tfvarsWeb = 0
    /\ \E full \in Timestamps, b \in StoredContents :
          backups = [t \in Timestamps |->
                        IF t = full THEN Some(b) ELSE None]
    /\ reportLog = [t \in Timestamps |-> None]
    /\ rollbackLogs = [t \in Timestamps |-> None]
    /\ drifts = 0
    /\ cycles = 0
    /\ InitEngine
    /\ InitManager
    /\ AnalyzerIdle

RemediationStarts ==
    /\ pcB = "idle"
    /\ rollback_log = <<>>
    /\ LoadReport

RollbackStarts ==
    /\ pcE = "idle"
    /\ StartRollback

RollbackContinues ==
    /\ pcE = "idle"
    /\ ExecStep

NextStore ==
    \/ Tick
    \/ RemediationStarts
    \/ BeginBackup
    \/ EndBackup
    \/ TerraformGate
    \/ ContainerGate
    \/ ContainerStep
    \/ VerifyAndReturn
    \/ RollbackOffer
    \/ RollbackStarts
    \/ RollbackContinues

SpecStore == InitStore /\ [][NextStore]_vars

\* ------------------------- a remediation run and a rollback run side by side
\* the run starts on an environment whose container has gone unhealthy
InitConc ==
    /\ repo \in Layouts
    /\ clock = 0
    /\ tfDrift \in BOOLEAN
    /\ containers = { Names[i] : i \in 1..ExpectedCount["web"] }
    /\ health = NormHealth(containers, [n \in NameSet |-> "unhealthy"])
    /\ tfstate = 1
    /\ tfstateCopy = 0
    /\ tfvarsWeb = 0
    /\ backups = [t \in Timestamps |-> None]
    /\ reportLog = [t \in Timestamps |-> None]
    /\ rollbackLogs = [t \in Timestamps |-> None]
    /\ drifts = 0
    /\ cycles = 0
    /\ InitEngine
    /\ InitManager
    /\ AnalyzerIdle

NextConc ==
    \/ LoadReport
    \/ BeginBackup
    \/ EndBackup
    \/ TerraformGate
    \/ ContainerGate
    \/ ContainerStep
    \/ VerifyAndReturn
    \/ RollbackOffer
    \/ StartRollback
    \/ PlanCommand
    \/ ExecStep

SpecConc == InitConc /\ [][NextConc]_vars

\* -------------------------------- a remediation run on a degraded environment
\* one container more than declared runs, and any of them may be unhealthy
InitDegraded ==
    /\ repo \in Layouts
    /\ clock = 0
    /\ tfDrift \in BOOLEAN
    /\ containers = NameSet
    /\ health \in [NameSet -> {"healthy", "unhealthy"}]
    /\ tfstate = 1
    /\ tfstateCopy = 0
    /\ tfvarsWeb = 0
    /\ backups = [t \in Timestamps |-> None]
    /\ reportLog = [t \in Timestamps |-> None]
    /\ rollbackLogs = [t \in Timestamps |-> None]
    /\ drifts = 0
    /\ cycles = 0
    /\ InitEngine
    /\ InitManager
    /\ AnalyzerIdle

NextEngine ==
    \/ LoadReport
    \/ BeginBackup
    \/ EndBackup
    \/ TerraformGate
    \/ ContainerGate
    \/ ContainerStep
    \/ VerifyAndReturn
    \/ RollbackOffer

SpecEngine == InitDegraded /\ [][NextEngine]_vars

\* --------------------------- a remediation run whose external tools may hang
\* subprocess.run without a timeout argument: a tool that never returns keeps
\* the run inside the call.  The calls covered are `terraform apply` of
\* remediate_terraform_drift (after the chdir), `docker restart` of
\* fix_container_health and the analyzer started by verify_remediation.
Hang ==
    /\ \/ /\ GateReady(pcE)
          /\ has_terraform_drift(drift_report)
          /\ DirExists(Resolve(cwdE, terraform_dir))
          /\ \E answer \in BOOLEAN :
                /\ Approved(auto_approve, answer)
                /\ gateAnswer' = [gateAnswer EXCEPT
                                    !.tf = AnswerOf(auto_approve, answer)]
          /\ cwdE' = Resolve(cwdE, terraform_dir)
       \/ /\ pcE = "ct_loop"
          /\ container_drifts(drift_report)[ctI].type = "health_drift"
          /\ UNCHANGED <<gateAnswer, cwdE>>
       \/ /\ pcE = "verify"
          /\ success
          /\ DirExists(Resolve(cwdE, scripts_dir))
          /\ UNCHANGED <<gateAnswer, cwdE>>
    /\ pcE' = "blocked"
    /\ UNCHANGED envVars
    /\ UNCHANGED <<auto_approve, drift_report, backup_dir, success,
                   remediation_summary, resultE, ctI, ctSuccess, verification>>
    /\ UNCHANGED <<actionLog, backupReturned, failedActions, verifyInfo,
                   loadedFrom>>
    /\ UNCHANGED <<mgrVars, obsB, anaVars, notified>>

NextHang == NextEngine \/ Hang

\* the process of the run keeps executing as long as it has a step to take
SpecHang == InitDegraded /\ [][NextHang]_vars /\ WF_vars(NextHang)

\* ------------------------------------------------- analyzer calls on their own
\* any declared counts, any plan result, any inventory in `docker ps` order
\* and any health status; a container that prints a status has a probe
InitAnalyze ==
    /\ InitEnv
    /\ repo = <<>>
    /\ InitEngine
    /\ InitManager
    /\ declared \in [{ TopoServices[i] : i \in 1..Len(TopoServices) }
                        -> -1..MaxCount]
    /\ plan_result \in {None, Some(0), Some(1), Some(2)}
    /\ \E listed \in SUBSET { TopoNames[i] : i \in 1..Len(TopoNames) },
          ok \in BOOLEAN :
          /\ ~ok => listed = {}
          /\ inventory = IF ok
                         THEN Some(SelectSeq(TopoNames,
                                             LAMBDA n : n \in listed))
                         ELSE None
          /\ statuses \in [listed -> ProbeStates]
          /\ probe_expected \in SUBSET listed
          /\ \A n \in listed : statuses[n] # "" => n \in probe_expected
    /\ analysis = <<>>

SpecAnalyze == InitAnalyze /\ [][Analyze]_vars

\* ================================================================ claims
Last(q) == q[Len(q)]

Calls == { actionLog[i].call : i \in 1..Len(actionLog) }

\* ---------------------------------------------------------------- C1
\* C1: in a remediation run no corrective action (terraform apply, tfvars
\* rewrite, container stop/remove/restart, taint) is made before create_backup
\* of that run has returned, and none is made while create_backup is at work.
C1_BackupBeforeActions ==
    [][actionLog' # actionLog =>
          /\ backupReturned
          /\ pcE \notin {"idle", "drift_found", "backing_up"}]_vars

\* a corrective action has been made, after the backup of the run returned
C1_Witness ==
    /\ actionLog # <<>>
    /\ backupReturned
    /\ IsSome(backup_dir)

\* ---------------------------------------------------------------- C2
\* C2: a corrective action of the planning-tool gate or of the container gate
\* is executed only if auto_approve is set or the operator approved that
\* gate's prompt; a declined gate is recorded as skipped in the remediation
\* summary, executes nothing and leaves the success flag as it was.
C2_ApprovalGates ==
    [][/\ (actionLog' # actionLog /\ pcE = "tf_gate")
            => gateAnswer'.tf = (IF auto_approve THEN "auto" ELSE "yes")
       /\ (actionLog' # actionLog /\ pcE = "ct_loop")
            => gateAnswer.ct = (IF auto_approve THEN "auto" ELSE "yes")
       /\ (gateAnswer.tf = "none" /\ gateAnswer'.tf = "no")
            => /\ remediation_summary' =
                    Append(remediation_summary, "tf_skipped")
               /\ success' = success
               /\ actionLog' = actionLog
               /\ UNCHANGED infra
       /\ (gateAnswer.ct = "none" /\ gateAnswer'.ct = "no")
            => /\ remediation_summary' =
                    Append(remediation_summary, "ct_skipped")
               /\ success' = success
               /\ pcE' = "verify"
               /\ UNCHANGED infra]_vars

\* the operator declined the planning-tool gate and approved the container
\* gate, whose actions were then executed; the run is still successful
C2_Witness ==
    /\ ~auto_approve
    /\ gateAnswer.tf = "no"
    /\ gateAnswer.ct = "yes"
    /\ remediation_summary = << "tf_skipped", "ct_ok" >>
    /\ actionLog # <<>>
    /\ success

\* ---------------------------------------------------------------- C3
\* outcome rule of the verification loop, by count against the original
OutcomeRule(remaining, original) ==
    IF remaining = 0 THEN "Converged"
    ELSE IF remaining < original THEN "PartiallyConverged"
    ELSE "Failed"

\* the outcome run_remediation can read off verify_remediation's result
\* (lines 519-524: only the boolean is consulted, and the returned report is
\* the same object for a partial and a failed verification)
ReturnedOutcome(v) == IF v.ok THEN "Converged" ELSE "Failed"

\* C3: when verify_remediation obtained a re-analysis, the result it returns
\* to run_remediation tells the outcome of the count rule: Converged for zero
\* remaining DriftDetails, PartiallyConverged for fewer than the original
\* count, Failed for equal or more.
C3_ThreeOutcomes ==
    (/\ verification.ran
     /\ IsSome(verification.new_report)
     /\ LET r == Get(verification.new_report)
        IN  r.drift_detected = (r.drift_details # <<>>))
    => ReturnedOutcome(verification) =
          OutcomeRule(Len(Get(verification.new_report).drift_details),
                      Len(drift_report.drift_details))

\* ---------------------------------------------------------------- C4
\* C4: a run in which every executed action succeeded, at least one of them a
\* planning-tool apply, whose verification could start the analyzer with
\* working collectors and whose infrastructure then shows zero DriftDetails,
\* returns success, for any original drift count above zero.
C4_ConvergedRunSucceeds ==
    (/\ pcE = "done"
     /\ verification.ran
     /\ failedActions = 0
     /\ "terraform_apply" \in Calls
     /\ Len(drift_report.drift_details) > 0
     /\ verifyInfo.launch # "norun"
     /\ verifyInfo.collectors
     /\ verifyInfo.trueDrift = 0)
    => resultE = "success"

\* ---------------------------------------------------------------- C5
\* C5: a run not in auto-approve mode that ends with a failed action or a
\* failed verification has offered rollback to its backup before returning.
C5_RollbackOffered ==
    (/\ pcE = "done"
     /\ ~auto_approve
     /\ IsSome(backup_dir)
     /\ \/ failedActions > 0
        \/ verification.ran /\ ~verification.ok)
    => /\ gateAnswer.rb # "none"
       /\ resultE = "failure"

\* ---------------------------------------------------------------- C6
EngineMutating ==
    pcE \in {"backing_up", "tf_gate", "ct_gate", "ct_loop", "verify", "except"}

ManagerMutating == pcB = "exec"

\* C6: a remediation run between the start of create_backup and the end of
\* its verification or rollback, and a rollback run executing its plan, are
\* never in progress at the same time on the environment.
C6_OneMutatingRun == ~(EngineMutating /\ ManagerMutating)

\* ---------------------------------------------------------------- C7
Rank(action) ==
    CASE action = "stop_containers" -> 1
      [] action = "restore_terraform_state" -> 2
      [] action = "restore_volume" -> 3
      [] action = "terraform_apply" -> 4
      [] action = "verify_rollback" -> 5

\* C7: the steps of a rollback run are executed in the order stop,
\* restore-state, restore-volume (one per archive), reapply, verify; the
\* executed steps are the plan's first steps, each once; every step before
\* the last executed one reported success; after a failed step nothing more
\* is executed and the result is Failed.
C7_OrderedFailFast ==
    stepI > 0 =>
      LET steps == plan.steps
          n     == Len(rollback_log)
      IN  /\ \A i, j \in 1..Len(steps) :
                i < j => /\ Rank(steps[i].action) <= Rank(steps[j].action)
                         /\ steps[i] # steps[j]
          /\ n <= Len(steps)
          /\ \A i \in 1..n : /\ rollback_log[i].action = steps[i].action
                             /\ rollback_log[i].step = steps[i].order
          /\ \A i \in 1..(n - 1) : rollback_log[i].success
          /\ pcB = "exec" => /\ n = stepI - 1
                             /\ \A i \in 1..n : rollback_log[i].success
          /\ (n > 0 /\ ~rollback_log[n].success)
                => pcB = "done" /\ resultB = "failure"
          /\ resultB = "success"
                => n = Len(steps) /\ \A i \in 1..n : rollback_log[i].success
          /\ (pcB = "done" /\ n < Len(steps)) => resultB = "failure"

\* a rollback run failed at a step after the first one and left the later
\* steps of its plan unexecuted
C7_Witness ==
    /\ pcB = "done"
    /\ resultB = "failure"
    /\ Len(rollback_log) >= 2
    /\ ~Last(rollback_log).success
    /\ Len(rollback_log) < Len(plan.steps)

\* ---------------------------------------------------------------- C8
\* C8: a rollback run that ended because a step reported failure has called
\* _save_rollback_log, and a written log holds the steps executed so far.
C8_PartialLogPersisted ==
    (/\ pcB = "done"
     /\ rollback_log # <<>>
     /\ ~Last(rollback_log).success)
    => /\ savedLog # "no"
       /\ savedLog = "written" =>
             \E t \in Timestamps :
                /\ IsSome(rollbackLogs[t])
                /\ Get(rollbackLogs[t]).steps = rollback_log
                /\ ~Get(rollbackLogs[t]).success

\* ---------------------------------------------------------------- C9
\* C9: after every operation that changes the working directory to call an
\* external tool, the process is back in the directory it was started in.
C9_CwdRestored ==
    /\ cwdE = StartCwd(repo)
    /\ cwdB = StartCwd(repo)

\* ---------------------------------------------------------------- C10
\* C10: a detection cycle whose plan collector failed is not taken for
\* convergence: verify_remediation does not report success on that cycle, and
\* run_remediation does not return success as 'no drift' on its report.
C10_CollectorFailureNotConverged ==
    /\ ~(verifyInfo.planFailed /\ verification.ok)
    /\ ~(/\ pcE = "done"
         /\ resultE = "success"
         /\ loadedFrom # "none"
         /\ ~backupReturned
         /\ drift_report.plan_exit_code = -1)

\* ---------------------------------------------------------------- C11
DetailTypes(report) ==
    { report.drift_details[i].type : i \in 1..Len(report.drift_details) }

\* C11: a detection cycle whose container-engine collector failed (no
\* inventory) while the plan collector worked reports no container_count_drift
\* and no health_drift.
C11_NoConclusionWithoutInventory ==
    \A planOut \in PlanOutcomes \ {"none"} :
        LET cyc == run_drift_detection(StartCwd(repo), planOut, FALSE)
        IN  ~cyc.crashed =>
               DetailTypes(Get(cyc.report)) \cap
                  {"container_count_drift", "health_drift"} = {}

\* ---------------------------------------------------------------- C12
FlagMatchesDetails(report) ==
    report.drift_detected <=> (report.drift_details # <<>>)

\* C12: every report a detection cycle produces on the current infrastructure,
\* for every outcome of the two collectors, and every report in the report
\* log, has drift_detected true exactly when drift_details is non-empty.
C12_FlagIffDetails ==
    /\ \A planOut \in PlanOutcomes, dockerOK \in BOOLEAN :
          LET cyc == run_drift_detection(StartCwd(repo), planOut, dockerOK)
          IN  ~cyc.crashed => FlagMatchesDetails(Get(cyc.report))
    /\ \A t \in Timestamps :
          IsSome(reportLog[t]) => FlagMatchesDetails(Get(reportLog[t]))

\* a cycle has saved a report whose drift comes from the containers only
\* (the plan shows no change), with the flag set
C12_Witness ==
    \E t \in Timestamps :
        /\ IsSome(reportLog[t])
        /\ Get(reportLog[t]).drift_detected
        /\ Get(reportLog[t]).plan_exit_code = 0
        /\ Get(reportLog[t]).drift_details # <<>>
        /\ cycles > 0

\* ---------------------------------------------------------------- C13
HasStep(action) ==
    \E i \in 1..Len(plan.steps) : plan.steps[i].action = action

\* C13: when a rollback that restores the state-file of a backup completes,
\* the live state-file equals the state-file captured in that backup.
C13_StateFileRoundTrip ==
    (/\ pcB = "done"
     /\ resultB = "success"
     /\ stepI > 0
     /\ HasStep("restore_terraform_state"))
    => tfstate = Get(backups[plan.backup_id]).tfstate

\* ---------------------------------------------------------------- C14
AtStep(action) ==
    /\ pcB = "exec"
    /\ plan.steps[stepI].action = action

\* C14: in the restore-state-file step, over an existing state-file: the
\* defensive copy afterwards holds the content from before the step, or else
\* the state-file is left as it was; and when the step reports success the
\* defensive copy holds the content from before the step.
C14_DefensiveCopy ==
    [][(AtStep("restore_terraform_state") /\ tfstate # 0)
          => /\ tfstateCopy' = tfstate \/ tfstate' = tfstate
             /\ Last(rollback_log').success => tfstateCopy' = tfstate]_vars

\* the step has replaced an existing state-file by a different one and the
\* defensive copy holds the replaced content
C14_Witness ==
    /\ stepI > 0
    /\ rollback_log # <<>>
    /\ Last(rollback_log).action = "restore_terraform_state"
    /\ Last(rollback_log).success
    /\ tfstateCopy # 0
    /\ tfstate # tfstateCopy
    /\ tfstate = Get(backups[plan.backup_id]).tfstate

\* ---------------------------------------------------------------- C15
\* C15: a rollback whose restore steps all succeeded and whose verify step
\* found drift (the analyzer it ran saved a report with drift) is not
\* returned as Failed, and its rollback log has been handed to
\* _save_rollback_log.
C15_UnverifiedIsNotFailed ==
    (/\ pcB = "done"
     /\ rollback_log # <<>>
     /\ Last(rollback_log).action = "verify_rollback"
     /\ ~Last(rollback_log).success
     /\ IsSome(reportLog[clock])
     /\ Get(reportLog[clock]).drift_detected)
    => /\ resultB = "success"
       /\ savedLog # "no"

\* ---------------------------------------------------------------- C16
\* C16: while the execute_rollback_plan call is a dry run no step is
\* executed and nothing changes: containers, health, state-file and its
\* defensive copy, variables file, backups, reports, working directory and
\* the store of rollback logs stay as they are.
C16_DryRunChangesNothing ==
    [][dry_run' => /\ rollback_log' = <<>>
                   /\ stepI' = stepI
                   /\ infra' = infra
                   /\ tfstateCopy' = tfstateCopy
                   /\ backups' = backups
                   /\ reportLog' = reportLog
                   /\ rollbackLogs' = rollbackLogs
                   /\ cwdB' = cwdB
                   /\ savedLog' = savedLog]_vars

\* a dry run has returned for a plan whose steps would have replaced the
\* state-file and restored a volume
C16_Witness ==
    /\ dry_run
    /\ pcB = "done"
    /\ resultB = "success"
    /\ HasStep("restore_terraform_state")
    /\ HasStep("restore_volume")
    /\ tfstate # Get(backups[plan.backup_id]).tfstate
    /\ containers # {}

\* ---------------------------------------------------------------- C17
StepsFor(steps, action, volume) ==
    { i \in 1..Len(steps) :
        steps[i].action = action /\ steps[i].volume = volume }

\* C17: the plan create_rollback_plan builds for a backup has a
\* restore-state-file step exactly when the backup holds a state-file, and
\* exactly one restore-volume step for each volume archive of the backup
\* (none for a volume the backup has no archive of).
C17_PlanMatchesBackup ==
    \A t \in Timestamps :
        LET p == create_rollback_plan(cwdB, t)
        IN  IsSome(p) =>
              /\ Cardinality(StepsFor(Get(p), "restore_terraform_state", ""))
                   = (IF Get(backups[t]).tfstate # 0 THEN 1 ELSE 0)
              /\ \A v \in VolumeNames :
                    Cardinality(StepsFor(Get(p), "restore_volume", v))
                      = (IF v \in Get(backups[t]).volumes THEN 1 ELSE 0)

\* a rollback run holds the plan of a backup with a state-file and two
\* volume archives
C17_Witness ==
    /\ stepI > 0
    /\ plan.steps = sorted_steps(Get(create_rollback_plan(StartCwd(repo),
                                                          plan.backup_id)))
    /\ HasStep("restore_terraform_state")
    /\ Cardinality(Get(backups[plan.backup_id]).volumes) = 2
    /\ \A v \in VolumeNames :
          Cardinality(StepsFor(plan.steps, "restore_volume", v)) = 1

\* ---------------------------------------------------------------- C18
\* C18: whenever a step of a rollback plan is about to run, the plan's
\* backup exists and holds what the plan was built from: a state-file
\* exactly when the plan has a restore-state-file step, and a volume archive
\* exactly for the volumes the plan has a restore-volume step for.
C18_BackupAsPlanned ==
    pcB = "exec" =>
        /\ IsSome(backups[plan.backup_id])
        /\ HasStep("restore_terraform_state")
             <=> Get(backups[plan.backup_id]).tfstate # 0
        /\ \A v \in VolumeNames :
              StepsFor(plan.steps, "restore_volume", v) # {}
                <=> v \in Get(backups[plan.backup_id]).volumes

\* ---------------------------------------------------------------- C19
BackupIds == { t \in Timestamps : IsSome(backups[t]) }

\* C19: list_backups returns exactly the backup directories named by a
\* timestamp, each once, newest first; and quick_rollback without an
\* identifier goes back to the newest of them.
C19_NewestFirst ==
    LET listed == list_backups(StartCwd(repo))
    IN  /\ { listed[i].id : i \in 1..Len(listed) } = BackupIds
        /\ \A i, j \in 1..Len(listed) : i < j => listed[i].id > listed[j].id
        /\ BackupIds # {} =>
             /\ IsSome(quick_rollback_target(StartCwd(repo), -1))
             /\ \A t \in BackupIds :
                   t <= Get(quick_rollback_target(StartCwd(repo), -1))

\* a rollback run is going back to the newest of two backups
C19_Witness ==
    /\ pcB = "exec"
    /\ Cardinality(BackupIds) > 1
    /\ Len(list_backups(StartCwd(repo))) = Cardinality(BackupIds)
    /\ plan.backup_id = Get(quick_rollback_target(StartCwd(repo), -1))
    /\ \A t \in BackupIds : t <= plan.backup_id

\* ---------------------------------------------------------------- C20
\* C20: a remediation run exits with a non-zero status exactly when its
\* terminal state is Failed: a run that found no drift to remediate exits
\* with zero, and a run whose verification obtained a re-analysis exits with
\* non-zero exactly when the count rule gives Failed (zero for Converged and
\* for PartiallyConverged).
C20_ExitStatus ==
    /\ (/\ pcE = "done"
        /\ loadedFrom # "none"
        /\ ~drift_report.drift_detected)
       => exit_status(resultE) = 0
    /\ (/\ pcE = "done"
        /\ verification.ran
        /\ IsSome(verification.new_report)
        /\ FlagMatchesDetails(Get(verification.new_report)))
       => (exit_status(resultE) # 0
             <=> OutcomeRule(Len(Get(verification.new_report).drift_details),
                             Len(drift_report.drift_details)) = "Failed")

\* ---------------------------------------------------------------- C21
DetailsOf(a, type) ==
    SelectSeq(a.drift_details, LAMBDA d : d.type = type)

\* the containers of the inventory that belong to a service: the name is
\* the service followed by the instance number
InstancesOf(service) ==
    IF ~IsSome(inventory) THEN <<>>
    ELSE SelectSeq(Get(inventory),
                   LAMBDA n : /\ Len(n) = Len(service) + 1
                              /\ SubSeq(n, 1, Len(service)) = service)

\* the inventory itself shows a count or a health discrepancy
CountDiscrepancy(service) ==
    /\ IsSome(inventory)
    /\ declared[service] # -1
    /\ Len(InstancesOf(service)) # declared[service]

HealthDiscrepancy(n) ==
    /\ IsSome(inventory)
    /\ \E i \in 1..Len(Get(inventory)) : Get(inventory)[i] = n
    /\ statuses[n] # "healthy"
    /\ statuses[n] # "" \/ n \in probe_expected

\* C21: an analyze_drift call on a plan with exit status 2 returns exactly
\* one terraform_drift DriftDetail, of severity high; on exit status 0 or 1
\* it returns none; and it returns a count or health DriftDetail only for a
\* service or container for which the inventory shows a discrepancy.
C21_PlanChangeDetail ==
    \A i \in 1..Len(analysis) :
        LET a == analysis[i]
        IN  /\ plan_result = Some(2) =>
                 /\ Len(DetailsOf(a, "terraform_drift")) = 1
                 /\ DetailsOf(a, "terraform_drift")[1].severity = "high"
            /\ plan_result \in {Some(0), Some(1)} =>
                 DetailsOf(a, "terraform_drift") = <<>>
            /\ IsSome(plan_result) =>
                 \A j \in 1..Len(a.drift_details) :
                    LET d == a.drift_details[j]
                    IN  /\ d.type = "container_count_drift"
                             => CountDiscrepancy(d.subject)
                        /\ d.type = "health_drift"
                             => HealthDiscrepancy(d.subject)

\* ---------------------------------------------------------------- C22
\* C22: for an inventory that was collected, an analyze_drift call returns
\* for every declared service with a count exactly one
\* container_count_drift DriftDetail, of severity medium and carrying the
\* expected count and the number of the service's own instances, when the
\* two differ, and none when they are equal.
C22_CountDetailPerService ==
    \A i \in 1..Len(analysis), k \in 1..Len(TopoServices) :
        LET service == TopoServices[k]
            ds == SelectSeq(DetailsOf(analysis[i], "container_count_drift"),
                            LAMBDA d : d.subject = service)
        IN  (IsSome(plan_result) /\ IsSome(inventory)
                /\ declared[service] # -1)
            => IF Len(InstancesOf(service)) = declared[service]
               THEN ds = <<>>
               ELSE /\ Len(ds) = 1
                    /\ ds[1].severity = "medium"
                    /\ ds[1].expected = declared[service]
                    /\ ds[1].actual = Len(InstancesOf(service))

\* ---------------------------------------------------------------- C23
\* C23: an analyze_drift call returns for every container of the inventory
\* one health_drift DriftDetail, of severity high, when the container's
\* health state is not healthy (unhealthy, starting, or no status where a
\* probe is expected), and none for a healthy container or one that
\* declares no probe.
C23_HealthDetailPerInstance ==
    \A i \in 1..Len(analysis) :
        (IsSome(plan_result) /\ IsSome(inventory)) =>
            \A k \in 1..Len(Get(inventory)) :
                LET n == Get(inventory)[k]
                    ds == SelectSeq(DetailsOf(analysis[i], "health_drift"),
                                    LAMBDA d : d.subject = n)
                IN  IF HealthDiscrepancy(n)
                    THEN Len(ds) = 1 /\ ds[1].severity = "high"
                    ELSE ds = <<>>

\* ---------------------------------------------------------------- C24
DetailSet(a) == { a.drift_details[j] : j \in 1..Len(a.drift_details) }

C25_CountActionSelection ==
    \A service \in {"web", "api"}, expected \in 0..Len(Names),
       actual \in 0..Len(Names) :
        LET d == Detail("container_count_drift", "medium", service, expected,
                        actual, "")
            r == fix_container_count(StartCwd(repo), d, "ok")
            tools == { r.calls[i].call : i \in 1..Len(r.calls) }
        IN  /\ actual < expected =>
                 /\ r.target = Some(expected)
                 /\ "terraform_apply" \in tools
                 /\ r.removed = {}
            /\ actual > expected =>
                 /\ "terraform_apply" \notin tools
                 /\ "tfvars_write" \notin tools
                 /\ r.removed = excess_containers(expected)

\* ---------------------------------------------------------------- C26
\* C26: fix_container_health on a running container restarts it first;
\* when the container is healthy afterwards nothing else is done, and
\* otherwise the resource marked for replacement is that container's, and
\* it is marked before the re-apply.
C26_RestartThenReplaceSame ==
    \A n \in containers, hAfter \in {"healthy", "unhealthy"} :
        LET d == Detail("health_drift", "high", n, 0, 0, "unhealthy")
            r == fix_container_health(StartCwd(repo), d, "ok", "ok", hAfter)
        IN  /\ r.calls[1].call = "docker_restart"
            /\ hAfter = "healthy" => Len(r.calls) = 1 /\ r.tainted = None
            /\ hAfter # "healthy" =>
                 /\ r.tainted = Some(n)
                 /\ Len(r.calls) = 3
                 /\ r.calls[2].call = "terraform_taint"
                 /\ r.calls[3].call = "terraform_apply"

\* ---------------------------------------------------------------- C27
Summary == { remediation_summary[i] : i \in 1..Len(remediation_summary) }

\* C27: in a run that has returned, a failed action has made the result
\* Failed; a failed planning-tool remediation has not kept the container
\* gate from being reached; and when the container gate was approved the
\* loop over the container DriftDetails has reached the last of them.
C27_SiblingsStillRun ==
    pcE = "done" =>
        /\ failedActions > 0 => resultE = "failure"
        /\ ("tf_failed" \in Summary /\ container_drifts(drift_report) # <<>>)
             => gateAnswer.ct # "none"
        /\ gateAnswer.ct \in {"yes", "auto"}
             => ctI = Len(container_drifts(drift_report))

\* ---------------------------------------------------------------- C28
\* C28: a run that found drift and has returned has started the analyzer
\* again after its gated actions, and the verification outcome is in the
\* remediation summary.
C28_AlwaysVerified ==
    (pcE = "done" /\ loadedFrom # "none" /\ drift_report.drift_detected)
    => /\ verification.ran
       /\ Summary \cap {"verify_ok", "verify_failed"} # {}

\* ---------------------------------------------------------------- C29
\* C29: with a webhook configured, every detection cycle that completes
\* emits exactly one event, whatever it found; a remediation run that has
\* returned has emitted exactly one event; and a rollback run that has
\* returned has emitted exactly one event.
C29_OneEventPerRun ==
    /\ \A planOut \in PlanOutcomes, dockerOK \in BOOLEAN,
          always_notify \in BOOLEAN :
          LET cyc == run_drift_detection(StartCwd(repo), planOut, dockerOK)
          IN  ~cyc.crashed =>
                 cycle_notifications(Get(cyc.report), always_notify) = 1
    /\ (pcE = "done" /\ loadedFrom # "none") => notified.remediation = 1
    /\ (pcB = "done" /\ stepI > 0) => notified.rollback = 1

\* ---------------------------------------------------------------- C30
\* C30: a remediation run that has been started reaches its terminal state,
\* also when an external tool it calls never returns.
C30_RunsTerminate == (pcE # "idle") ~> (pcE = "done")

\* ---------------------------------------------------------------- C31
\* the artifacts a complete backup of the present infrastructure holds
ExpectedArtifacts(state_exists) ==
    (IF state_exists THEN {StateArtifact} ELSE {})
      \cup VolumeNames \cup {SnapshotArtifact}

\* C31: whatever the copy, the archival and the snapshot do, create_backup
\* returns a failure when the existing state-file cannot be copied, returns
\* a Backup when the state-file copy works (also when the volume archival
\* fails), and a returned Backup records exactly the artifacts it lacks.
C31_PartialBackupRecorded ==
    pcE = "backing_up" =>
      \A cpOK \in BOOLEAN, volsOK \in BOOLEAN, snapOK \in BOOLEAN :
        LET r == create_backup(cwdE, Get(backup_dir), cpOK, volsOK, snapOK)
        IN  /\ (r.state_exists /\ ~cpOK) => ~IsSome(r.handle)
            /\ cpOK => IsSome(r.handle)
            /\ IsSome(r.handle) =>
                 r.recorded_missing
                   = ExpectedArtifacts(r.state_exists) \ r.written

\* ---------------------------------------------------------------- C32
\* a restoration step, without its position
StepOf(action, volume) == [action |-> action, volume |-> volume]

\* restore_docker_volumes, lines 383-400: one restore per archive
restore_docker_volumes(b) ==
    LET vols == SetToSeq(b.volumes)
    IN  [i \in 1..Len(vols) |-> StepOf("restore_volume", vols[i])]

\* the restoration steps rollback_changes goes through: the steps of its
\* external calls, then restore_docker_volumes when no call has raised
rollback_changes_steps(cwd, bdir, cpOK, out) ==
    LET r == rollback_changes(cwd, bdir, cpOK, out)
        done == [i \in 1..Len(r.calls) |->
                    StepOf(IF r.calls[i].call = "cp_tfstate"
                           THEN "restore_terraform_state"
                           ELSE r.calls[i].call, "")]
    IN  IF r.ok THEN done \o restore_docker_volumes(Get(backups[Get(bdir)]))
        ELSE done

\* the steps of the plan the rollback manager builds for a backup
plan_steps(cwd, backup_id) ==
    LET p == create_rollback_plan(cwd, backup_id)
        steps == IF IsSome(p) THEN sorted_steps(Get(p)) ELSE <<>>
    IN  [i \in 1..Len(steps) |-> StepOf(steps[i].action, steps[i].volume)]

\* C32: when a remediation run that failed offers the rollback to its
\* backup, the steps rollback_changes goes through with every tool working
\* are the steps of the plan the rollback manager builds for that backup:
\* stop, restore state-file, restore each volume, re-apply, verify.
C32_SameRestoration ==
    (/\ pcE = "except"
     /\ IsSome(backup_dir)
     /\ Resolve(cwdE, backups_dir) = BackupsRoot
     /\ IsSome(backups[Get(backup_dir)]))
    => rollback_changes_steps(cwdE, backup_dir, TRUE, "ok")
         = plan_steps(StartCwd(repo), Get(backup_dir))

\* ---------------------------------------------------------------- C33
Records(log) == { t \in Timestamps : IsSome(log[t]) }

\* C33: a detection cycle that writes its report (started by the operator,
\* the scheduler or a remediation run) adds exactly one record to the report
\* log and changes or removes no record that is there, also when another
\* cycle has completed within the same second.
C33_ReportLogAppendOnly ==
    [][reportLog' # reportLog =>
         /\ \A t \in Records(reportLog) : reportLog'[t] = reportLog[t]
         /\ Cardinality(Records(reportLog'))
              = Cardinality(Records(reportLog)) + 1
      ]_vars

\* ---------------------------------------------------------------- C34
\* self.max_retries = 3
max_retries == 3

\* the external calls a step of the run has added to those made before
NewCalls(before, after) == SubSeq(after, Len(before) + 1, Len(after))

\* how often a call occurs among calls
Attempts(calls, c) == Cardinality({ i \in 1..Len(calls) : calls[i] = c })

\* C34: when a step of a run records a corrective action as failed after
\* its external call failed, that call has been attempted max_retries times
\* in the step; and no step attempts a call more than max_retries times.
C34_BoundedRetries ==
    [][LET new == NewCalls(actionLog, actionLog')
       IN  /\ (failedActions' = failedActions + 1 /\ new # <<>>)
                => Attempts(new, Last(new)) = max_retries
           /\ \A i \in 1..Len(new) : Attempts(new, new[i]) <= max_retries
      ]_vars

\* ---------------------------------------------------------------- C35
\* C35: in a rollback run started with --dry-run, with or without a backup
\* identifier, no step is executed, and containers, health, state-file, its
\* defensive copy and the variables file stay as they are.
C35_DryRunOptionHonoured ==
    [][args_dry_run' => /\ rollback_log' = <<>>
                        /\ infra' = infra
                        /\ tfstateCopy' = tfstateCopy]_vars

\* ---------------------------------------------------------------- C36
\* the planning-tool applies the run has made through container actions
ContainerApplies ==
    { i \in 1..Len(actionLog) :
        /\ actionLog[i].call = "terraform_apply"
        /\ actionLog[i].via \in {"scale_containers_via_terraform",
                                 "recreate_container_via_terraform"} }

\* C36: in a run whose operator declined the planning-tool prompt, no
\* container action (scale-up, recreation) has run the planning tool's
\* apply.
C36_DeclinedPlanNotApplied ==
    gateAnswer.tf = "no" => ContainerApplies = {}

\* ---------------------------------------------------------------- C37
\* C37: in a run whose create_backup has returned no Backup, no corrective
\* action is made.
C37_NoActionWithoutBackup ==
    (backupReturned /\ ~IsSome(backup_dir)) => actionLog = <<>>

\* ---------------------------------------------------------------- C38
\* C38: whatever the analyzer run the engine starts does, the report a run
\* without a report file acts on is the record that analyzer run wrote, and
\* a report verify_remediation reads from the report log is the record
\* written by the analyzer run it started.
C38_OwnReportOnly ==
    /\ pcE = "idle" =>
         \A launch \in {"ran", "norun"}, planOut \in PlanOutcomes,
            dockerOK \in BOOLEAN, saveOK \in BOOLEAN :
            LET r == load_report(cwdE, -1, launch, planOut, dockerOK, saveOK)
            IN  IsSome(r.loaded) => r.own
    /\ (pcE = "verify" /\ success) =>
         \A launch \in {"ran", "norun"}, planOut \in PlanOutcomes,
            dockerOK \in BOOLEAN, saveOK \in BOOLEAN :
            LET r == verify_remediation(cwdE, drift_report, launch, planOut,
                                        dockerOK, saveOK)
            IN  r.from_log => r.own


\* C39: once create_backup has returned a Backup its contents never change:
\* a create_backup call makes a backup identifier that no backup of the store
\* has, and no step of any operation changes a backup of the store other than
\* the one the running create_backup call is still writing; the rollback
\* steps only read
C39_BackupImmutable ==
    [][ /\ (pcE = "drift_found" /\ pcE' = "backing_up")
            => ~IsSome(backups[Get(backup_dir')])
        /\ \A t \in Timestamps :
              ( /\ IsSome(backups[t])
                /\ pcE = "backing_up" => backup_dir # Some(t) )
              => backups'[t] = backups[t] ]_vars


\* C40: a run of run_remediation that has obtained a DriftReport with
\* drift_detected false is over with success: it has made no backup, run no
\* corrective action and asked for no approval
C40_NoDriftNoRemediation ==
    (pcE # "idle" /\ loadedFrom # "none" /\ ~drift_report.drift_detected)
        => /\ pcE = "done"
           /\ resultE = "success"
           /\ ~backupReturned
           /\ backup_dir = None
           /\ \A t \in Timestamps : backups[t] = None
           /\ actionLog = <<>>
           /\ gateAnswer = NoAnswers

\* a run has ended on a report without drift
C40_Witness ==
    /\ pcE = "done"
    /\ loadedFrom # "none"
    /\ ~drift_report.drift_detected
    /\ resultE = "success"

====
